---- MODULE Spec2Model ----
(***************************************************************************)
(* A model of the video finder backend (Convex functions):                 *)
(*   - the Video/Frame store and its mutations (videos.ts, frames.ts),     *)
(*   - the derivation stages (frameExtraction, transcription, groqAnalysis,*)
(*     claudeVision, embeddings),                                          *)
(*   - the pipeline orchestrator (processing.ts: processVideo and          *)
(*     processVideoFull),                                                  *)
(*   - the pure parts of the hybrid search (search.ts: the weighted match  *)
(*     scores, aggregateResults, clusterTimestamps).                       *)
(*                                                                         *)
(* A Convex mutation is one transaction: it either takes effect as a whole *)
(* or raises and changes nothing.  An action (a stage, a pipeline) is a    *)
(* sequence of such transactions and collaborator calls; every step of it  *)
(* is one action of this model, and every call that can raise has a        *)
(* raising outcome.                                                        *)
(***************************************************************************)
EXTENDS Integers, Sequences, FiniteSets, TLC

VARIABLES
    videos,     \* the videos table: id -> record
    frames,     \* the frames table, in insertion order (by_video index order)
    runs,       \* the invocations of actions: slot -> record
    prev,       \* the record of the invocation that ended before the current one
    nInv,       \* number of invocations started so far
    sIn,        \* search: the input of the pure search functions
    sOut,       \* search: their output
    spc,        \* search: position
    blobs       \* the file storage: the ids of the stored blobs

pipeVars == <<videos, frames, runs, prev, nInv, blobs>>
searchVars == <<sIn, sOut, spc, blobs>>
vars == <<videos, frames, runs, prev, nInv, sIn, sOut, spc, blobs>>

----------------------------------------------------------------------------
(* Bounds of the model *)

\* frames the frames table may hold (a FrameSampler run produces 0 .. what is left)
MaxFrames == 2
\* invocations (pipeline runs and direct stage calls) in one behaviour of Spec
MaxInvocations == 2
\* direct calls of the frame-level stages in one behaviour of SpecFrames
MaxStageCalls == 4

VideoIds == {"v1"}
RunIds == {"r1"}

----------------------------------------------------------------------------
(* Program constants *)

\* frameExtraction.ts: const FRAME_INTERVAL_SECONDS = 2
FRAME_INTERVAL_SECONDS == 2
\* processing.ts: intervalSeconds: 10
PipelineInterval == 10
\* schema.ts: by_image_embedding dimensions (CLIP ViT-B/32)
ClipDim == 512
\* schema.ts: text embedding dimensions (OpenAI)
TextDim == 1536
\* an absent optional vector / number
None == 0

Steps == {"framesExtracted", "framesAnalyzed", "transcribed", "embedded"}

----------------------------------------------------------------------------
(* videos.ts: the mutations, as functions of the table *)

\* the record createVideo inserts
NewVideo ==
    [status |-> "uploading",
     processingSteps |-> [s \in Steps |-> FALSE],
     hasDuration |-> FALSE,
     duration |-> 0,
     transcript |-> "none",
     summary |-> FALSE,
     groqAnalysis |-> FALSE,
     transcriptEmbedding |-> None,
     summaryEmbedding |-> None]

updateVideoStatusRollback(vs, v, status) ==
    IF status = "failed"
    THEN [vs EXCEPT ![v] = [NewVideo EXCEPT !.status = "failed"]]
    ELSE [vs EXCEPT ![v].status = status]

updateVideoStatus(vs, v, status) ==
    [vs EXCEPT ![v].status = status]

updateProcessingStepReplace(vs, v, step, value) ==
    [vs EXCEPT ![v] = [NewVideo EXCEPT
                          !.processingSteps = [vs[v].processingSteps EXCEPT ![step] = value]]]

updateProcessingStepReset(vs, v, step, value) ==
    [vs EXCEPT ![v].processingSteps = [s \in Steps |-> IF s = step THEN value ELSE FALSE]]

updateProcessingStep(vs, v, step, value) ==
    [vs EXCEPT ![v].processingSteps = [vs[v].processingSteps EXCEPT ![step] = value]]

\* duration is optional: patching an undefined duration removes the field
storeTranscript(vs, v, transcript, hasDur, dur) ==
    [vs EXCEPT ![v].transcript = transcript,
               ![v].hasDuration = hasDur,
               ![v].duration = IF hasDur THEN dur ELSE 0]

storeGroqAnalysis(vs, v) ==
    [vs EXCEPT ![v].summary = TRUE, ![v].groqAnalysis = TRUE]

updateVideoDuration(vs, v, dur) ==
    [vs EXCEPT ![v].hasDuration = TRUE, ![v].duration = dur]

storeVideoEmbeddings(vs, v, tEmb, sEmb) ==
    [vs EXCEPT ![v].transcriptEmbedding = IF tEmb # None THEN tEmb ELSE @,
               ![v].summaryEmbedding = IF sEmb # None THEN sEmb ELSE @]

----------------------------------------------------------------------------
(* frames.ts *)

NewFrame(v, ts, storageId) ==
    [videoId |-> v, timestamp |-> ts, storageId |-> storageId,
     description |-> FALSE, keywords |-> FALSE,
     imageEmbedding |-> None, keywordsEmbedding |-> None]

\* n frames at i * interval, i = 0 .. n-1, appended in order; the blob of the
\* i-th frame was stored under the id base + i
createFramesBatch(fs, v, n, interval, base) ==
    fs \o [i \in 1..n |-> NewFrame(v, (i - 1) * interval, base + i)]

\* ctx.storage.store: the ids under which n more blobs are stored
LastId(bs) == IF bs = {} THEN 0 ELSE CHOOSE x \in bs : \A y \in bs : y <= x

Stored(bs, n) == (LastId(bs) + 1)..(LastId(bs) + n)

updateFrameAnalysis(fs, f, hasKeywords) ==
    [fs EXCEPT ![f].description = TRUE, ![f].keywords = hasKeywords]

updateFrameEmbeddings(fs, f, imgEmb, kwEmb) ==
    [fs EXCEPT ![f].imageEmbedding = IF imgEmb # None THEN imgEmb ELSE @,
               ![f].keywordsEmbedding = IF kwEmb # None THEN kwEmb ELSE @]

\* a set of table indices as a sequence in table order
RECURSIVE Ascending(_)
Ascending(S) ==
    IF S = {} THEN <<>>
    ELSE LET m == CHOOSE x \in S : \A y \in S : x <= y
         IN <<m>> \o Ascending(S \ {m})

\* args.limit ? list.slice(0, args.limit) : list
Limited(s, limit) ==
    IF limit # None /\ limit < Len(s) THEN SubSeq(s, 1, limit) ELSE s

getFramesByVideo(fs, v) ==
    Ascending({i \in 1..Len(fs) : fs[i].videoId = v})

getFramesWithoutAnalysis(fs, v, limit) ==
    Limited(Ascending({i \in 1..Len(fs) : fs[i].videoId = v /\ ~fs[i].description}), limit)

getFramesWithoutAnyEmbedding(fs, v, limit) ==
    Limited(Ascending({i \in 1..Len(fs) : /\ fs[i].videoId = v
                                          /\ fs[i].imageEmbedding = None
                                          /\ fs[i].keywordsEmbedding = None}),
            limit)

getFramesWithoutEmbeddingsAnyVideo(fs, v, limit) ==
    Limited(Ascending({i \in 1..Len(fs) : fs[i].imageEmbedding = None}), limit)

getFramesWithoutEmbeddings(fs, v, limit) ==
    Limited(Ascending({i \in 1..Len(fs) : fs[i].videoId = v /\ fs[i].imageEmbedding = None}),
            limit)

----------------------------------------------------------------------------
(* Invocations.  A run is one invocation of an action: a pipeline          *)
(* (processVideo, processVideoFull) or a stage called directly.            *)

Stages == {"extractFrames", "storeExtractedFrames", "transcribeVideo",
           "transcribeWithSegments", "analyzeTranscript", "analyzeVideoFrames",
           "embedVideoFrames", "embedVideoText"}
Pipelines == {"processVideo", "processVideoFull"}

\* positions at which an invocation has ended: returned, raised to its caller,
\* or (a pipeline whose catch handler raised) ended with an unhandled error
Final == {"idle", "done", "raised", "crashed"}

\* what the Transcriber may report as the total duration (seconds)
TranscriberDurations == {5}

IdleRun ==
    [kind |-> "none", video |-> "none", pc |-> "idle",
     interval |-> 0, n |-> 0, queue |-> <<>>,
     embedImages |-> FALSE, useOpenAIVision |-> FALSE, limit |-> None,
     hasT |-> FALSE, hasS |-> FALSE,
     ok |-> FALSE,          \* the value of success in what a stage returned
     embedCalls |-> 0,      \* Embedder calls made by this invocation
     analyzerCalls |-> 0,   \* TextAnalyzer calls made by this invocation
     failed |-> 0,          \* per-frame failures caught inside a batch stage
     frameWrites |-> 0,     \* frame records inserted or patched by this invocation
     base |-> 0,            \* the blobs of the sampled frames have the ids base + 1 ..
     allEmbedded |-> FALSE, \* at the call: the video has frames, each with an embedding
     trace |-> <<>>]        \* a pipeline's status writes and stage calls, in order

\* the first position of a stage
FirstPc(stage) ==
    CASE stage = "extractFrames" -> "ex_sample"
      [] stage = "storeExtractedFrames" -> "se_batch"
      [] stage = "transcribeVideo" -> "tr_store"
      [] stage = "transcribeWithSegments" -> "tr_store"
      [] stage = "analyzeTranscript" -> "an_run"
      [] stage = "analyzeVideoFrames" -> "af_query"
      [] stage = "embedVideoFrames" -> "ef_query"
      [] stage = "embedVideoText" -> "et_read"

\* the stage a position belongs to in a pipeline
StageOfPc(pc) ==
    CASE pc \in {"ex_sample", "ex_batch", "ex_flag", "ex_dur", "ex_cleanup"} -> "extractFrames"
      [] pc \in {"tr_store", "tr_flag"} -> "transcribeVideo"
      [] pc = "an_run" -> "analyzeTranscript"
      [] pc \in {"ef_query", "ef_kw", "ef_img", "ef_requery", "ef_flag"} -> "embedVideoFrames"
      [] pc \in {"et_read", "et_embed"} -> "embedVideoText"
      [] OTHER -> "none"

processVideoFullSkipping(stage) ==
    CASE stage = "extractFrames" -> "analyzeTranscript"
      [] stage = "analyzeTranscript" -> "embedVideoFrames"
      [] stage = "embedVideoFrames" -> "embedVideoText"
      [] OTHER -> "ready"

\* processVideoFull: what follows a stage that returned: extract -> transcribe
\* -> analyze transcript -> embed frames -> embed text -> the Ready write
processVideoFullNext(stage) ==
    CASE stage = "extractFrames" -> "transcribeVideo"
      [] stage = "transcribeVideo" -> "analyzeTranscript"
      [] stage = "analyzeTranscript" -> "embedVideoFrames"
      [] stage = "embedVideoFrames" -> "embedVideoText"
      [] OTHER -> "ready"

processVideoNextAsFull(stage) == processVideoFullNext(stage)

\* processVideo: extract, then the Ready write
processVideoNext(stage) == "ready"

\* a pipeline calls a stage: the arguments it passes
CallStage(run, stage) ==
    [run EXCEPT !.pc = FirstPc(stage),
                !.trace = @ \o <<(<<"call", stage>>)>>,
                !.interval = IF stage = "extractFrames" THEN PipelineInterval ELSE @,
                !.embedImages = IF stage = "embedVideoFrames" THEN TRUE ELSE @,
                !.useOpenAIVision = IF stage = "embedVideoFrames" THEN TRUE ELSE @,
                !.limit = None,
                !.queue = <<>>]

\* a stage returns to its caller
StageReturn(run, stage) ==
    IF run.kind \in Pipelines
    THEN LET nxt == IF run.kind = "processVideo" THEN processVideoNext(stage)
                    ELSE processVideoFullNext(stage)
             ret == [run EXCEPT !.trace = @ \o <<(<<"ret", stage>>)>>, !.ok = TRUE, !.queue = <<>>]
         IN IF nxt = "ready" THEN [ret EXCEPT !.pc = "p_ready"] ELSE CallStage(ret, nxt)
    ELSE [run EXCEPT !.pc = "done", !.ok = TRUE, !.queue = <<>>]

\* a stage raises to its caller: a pipeline's try block is left for its catch
StageRaise(run, stage) ==
    IF run.kind \in Pipelines
    THEN [run EXCEPT !.pc = "catch", !.trace = @ \o <<(<<"raise", stage>>)>>, !.queue = <<>>]
    ELSE [run EXCEPT !.pc = "raised", !.queue = <<>>]

ExtractFailedIgnored(run) ==
    IF run.kind = "processVideoFull"
    THEN CallStage([run EXCEPT !.ok = FALSE, !.trace = @ \o <<(<<"fail", "extractFrames">>)>>],
                   "transcribeVideo")
    ELSE [run EXCEPT !.pc = IF run.kind = "processVideo" THEN "p_failwrite" ELSE "done",
                     !.ok = FALSE,
                     !.trace = IF run.kind = "processVideo"
                               THEN @ \o <<(<<"fail", "extractFrames">>)>> ELSE @]

\* extractFrames catches its own errors and returns success = false;
\* processVideo then writes Failed itself, processVideoFull throws
ExtractFailed(run) ==
    CASE run.kind = "processVideo" ->
            [run EXCEPT !.pc = "p_failwrite", !.ok = FALSE,
                        !.trace = @ \o <<(<<"fail", "extractFrames">>)>>]
      [] run.kind = "processVideoFull" ->
            [run EXCEPT !.pc = "catch", !.ok = FALSE,
                        !.trace = @ \o <<(<<"fail", "extractFrames">>)>>]
      [] OTHER -> [run EXCEPT !.pc = "done", !.ok = FALSE]

\* what is kept of the invocation that ended before the current one: whether it
\* was an embedVideoFrames call over all unembedded frames (no limit) that
\* returned with no frame failure, and its embedImages argument
Summary(run) ==
    [embeddedAll |-> run.kind = "embedVideoFrames" /\ run.pc = "done"
                     /\ run.limit = None /\ run.failed = 0,
     embedImages |-> run.kind = "embedVideoFrames" /\ run.embedImages]

Sequential == \A r \in DOMAIN runs : runs[r].pc \in Final

\* an invocation takes a slot whose invocation has ended; in these
\* specifications invocations do not overlap (the caller's obligation)
BeginWithin(r, rec, max) ==
    /\ nInv < max
    /\ Sequential
    /\ runs' = [runs EXCEPT ![r] = rec]
    /\ prev' = Summary(runs[r])
    /\ nInv' = nInv + 1

Begin(r, rec) == BeginWithin(r, rec, MaxInvocations)

Step(r, rec) ==
    /\ runs' = [runs EXCEPT ![r] = rec]
    /\ UNCHANGED <<prev, nInv>>

----------------------------------------------------------------------------
(* Triggers *)

\* videos.ts createVideo: insert the record; unless autoProcess is false,
\* schedule processVideo for it
createVideo(v, autoProcess) ==
    /\ v \in VideoIds \ DOMAIN videos
    /\ videos' = [x \in DOMAIN videos \cup {v} |-> IF x = v THEN NewVideo ELSE videos[x]]
    /\ IF autoProcess
       THEN \E r \in DOMAIN runs :
                Begin(r, [IdleRun EXCEPT !.kind = "processVideo", !.video = v,
                                         !.pc = "p_start"])
       ELSE UNCHANGED <<runs, prev, nInv>>
    /\ UNCHANGED <<frames, sIn, sOut, spc, blobs>>

\* a pipeline is triggered explicitly for an existing video
TriggerPipeline(r, v, kind) ==
    /\ v \in DOMAIN videos
    /\ kind \in Pipelines
    /\ Begin(r, [IdleRun EXCEPT !.kind = kind, !.video = v, !.pc = "p_start"])
    /\ UNCHANGED <<videos, frames, sIn, sOut, spc, blobs>>

AllEmbedded(v) ==
    /\ getFramesByVideo(frames, v) # <<>>
    /\ \A i \in 1..Len(frames) :
          frames[i].videoId = v =>
              frames[i].imageEmbedding # None \/ frames[i].keywordsEmbedding # None

\* a stage is called directly (dashboard, client), with its arguments
InvokeStage(r, v, stage, interval, embedImages, useOpenAIVision, limit, max) ==
    /\ v \in DOMAIN videos
    /\ stage \in Stages
    /\ BeginWithin(r, [IdleRun EXCEPT !.kind = stage, !.video = v, !.pc = FirstPc(stage),
                                      !.interval = interval, !.embedImages = embedImages,
                                      !.useOpenAIVision = useOpenAIVision, !.limit = limit,
                                      !.allEmbedded = AllEmbedded(v)],
                   max)
    /\ UNCHANGED <<videos, frames, sIn, sOut, spc, blobs>>

\* the argument combinations of embedVideoFrames that differ in behaviour
EmbedArgs == {<<FALSE, FALSE>>, <<TRUE, FALSE>>, <<TRUE, TRUE>>}

InvokeExtract(r, v, max) ==
    \E stage \in {"extractFrames", "storeExtractedFrames"} :
        InvokeStage(r, v, stage, PipelineInterval, FALSE, FALSE, None, max)

InvokeAnalyzeFrames(r, v, max) ==
    InvokeStage(r, v, "analyzeVideoFrames", 0, FALSE, FALSE, None, max)

InvokeEmbedFrames(r, v, max) ==
    \E a \in EmbedArgs, limit \in {None, 1} :
        InvokeStage(r, v, "embedVideoFrames", 0, a[1], a[2], limit, max)

InvokeText(r, v, max) ==
    \E stage \in {"transcribeVideo", "transcribeWithSegments", "analyzeTranscript",
                   "embedVideoText"} :
        InvokeStage(r, v, stage, 0, FALSE, FALSE, None, max)

----------------------------------------------------------------------------
(* processing.ts: the orchestrator's own steps *)

\* try { updateVideoStatus(processing); extractFrames(intervalSeconds: 10) ...
PStart(r) ==
    LET run == runs[r] IN
    /\ run.pc = "p_start"
    /\ \/ /\ videos' = updateVideoStatus(videos, run.video, "processing")
          /\ Step(r, CallStage([run EXCEPT !.trace = @ \o <<(<<"write", "processing">>)>>],
                               "extractFrames"))
       \/ /\ UNCHANGED videos
          /\ Step(r, StageRaise(run, "updateVideoStatus"))
    /\ UNCHANGED <<frames, sIn, sOut, spc, blobs>>

\* ... updateVideoStatus(ready) }
PReady(r) ==
    LET run == runs[r] IN
    /\ run.pc = "p_ready"
    /\ \/ /\ videos' = updateVideoStatus(videos, run.video, "ready")
          /\ Step(r, [run EXCEPT !.pc = "done", !.trace = @ \o <<(<<"write", "ready">>)>>])
       \/ /\ UNCHANGED videos
          /\ Step(r, StageRaise(run, "updateVideoStatus"))
    /\ UNCHANGED <<frames, sIn, sOut, spc, blobs>>

\* processVideo: if (!extractResult.success) { updateVideoStatus(failed); return }
PFailWrite(r) ==
    LET run == runs[r] IN
    /\ run.pc = "p_failwrite"
    /\ \/ /\ videos' = updateVideoStatus(videos, run.video, "failed")
          /\ Step(r, [run EXCEPT !.pc = "done", !.trace = @ \o <<(<<"write", "failed">>)>>])
       \/ /\ UNCHANGED videos
          /\ Step(r, StageRaise(run, "updateVideoStatus"))
    /\ UNCHANGED <<frames, sIn, sOut, spc, blobs>>

\* catch (error) { updateVideoStatus(failed) }: an error of this write is unhandled
PCatch(r) ==
    LET run == runs[r] IN
    /\ run.pc = "catch"
    /\ \/ /\ videos' = updateVideoStatus(videos, run.video, "failed")
          /\ Step(r, [run EXCEPT !.pc = "done", !.trace = @ \o <<(<<"write", "failed">>)>>])
       \/ /\ UNCHANGED videos
          /\ Step(r, [run EXCEPT !.pc = "crashed"])
    /\ UNCHANGED <<frames, sIn, sOut, spc, blobs>>

----------------------------------------------------------------------------
(* frameExtraction.ts extractFrames.  Every error inside it is caught and  *)
(* turned into the return value success = false.                           *)

\* getVideo, download, ffmpeg, upload of each frame image: n frames sampled
ExSample(r) ==
    LET run == runs[r] IN
    /\ run.pc = "ex_sample"
    /\ \/ \E n \in 0..(MaxFrames - Len(frames)) :
              /\ blobs' = blobs \cup Stored(blobs, n)
              /\ Step(r, [run EXCEPT !.n = n, !.base = LastId(blobs),
                                     !.pc = IF n > 0 THEN "ex_batch" ELSE "ex_flag"])
       \/ /\ UNCHANGED blobs
          /\ Step(r, ExtractFailed(run))
    /\ UNCHANGED <<videos, frames, sIn, sOut, spc>>

\* if (frameRecords.length > 0) createFramesBatch(...)
ExBatch(r) ==
    LET run == runs[r] IN
    /\ run.pc = "ex_batch"
    /\ \/ /\ frames' = createFramesBatch(frames, run.video, run.n, run.interval, run.base)
          /\ Step(r, [run EXCEPT !.pc = "ex_flag", !.frameWrites = @ + run.n])
       \/ /\ UNCHANGED frames
          /\ Step(r, ExtractFailed(run))
    /\ UNCHANGED <<videos, sIn, sOut, spc, blobs>>

\* updateProcessingStep(framesExtracted, true)
ExFlag(r) ==
    LET run == runs[r] IN
    /\ run.pc = "ex_flag"
    /\ \/ /\ videos' = updateProcessingStep(videos, run.video, "framesExtracted", TRUE)
          /\ Step(r, [run EXCEPT !.pc = IF run.n > 0 THEN "ex_dur" ELSE "ex_cleanup"])
       \/ /\ UNCHANGED videos
          /\ Step(r, ExtractFailed(run))
    /\ UNCHANGED <<frames, sIn, sOut, spc, blobs>>

\* if (frameRecords.length > 0) updateVideoDuration((length - 1) * interval)
ExDur(r) ==
    LET run == runs[r] IN
    /\ run.pc = "ex_dur"
    /\ \/ /\ videos' = updateVideoDuration(videos, run.video, (run.n - 1) * run.interval)
          /\ Step(r, [run EXCEPT !.pc = "ex_cleanup"])
       \/ /\ UNCHANGED videos
          /\ Step(r, ExtractFailed(run))
    /\ UNCHANGED <<frames, sIn, sOut, spc, blobs>>

\* finally { fs.rmSync(tempDir) }; return { success: true }
ExCleanup(r) ==
    LET run == runs[r] IN
    /\ run.pc = "ex_cleanup"
    /\ \/ Step(r, StageReturn(run, "extractFrames"))
       \/ Step(r, ExtractFailed(run))
    /\ UNCHANGED <<videos, frames, sIn, sOut, spc, blobs>>

(* frameExtraction.ts storeExtractedFrames: errors propagate.  The caller  *)
(* has stored the blobs of the frames it passes.                           *)

SeBatch(r) ==
    LET run == runs[r] IN
    /\ run.pc = "se_batch"
    /\ \E n \in 0..(MaxFrames - Len(frames)) :
          /\ blobs' = blobs \cup Stored(blobs, n)
          /\ \/ /\ frames' = createFramesBatch(frames, run.video, n, run.interval, LastId(blobs))
                /\ Step(r, [run EXCEPT !.n = n, !.pc = "se_flag", !.frameWrites = @ + n])
             \/ /\ UNCHANGED frames
                /\ Step(r, StageRaise(run, "storeExtractedFrames"))
    /\ UNCHANGED <<videos, sIn, sOut, spc>>

SeFlag(r) ==
    LET run == runs[r] IN
    /\ run.pc = "se_flag"
    /\ \/ /\ videos' = updateProcessingStep(videos, run.video, "framesExtracted", TRUE)
          /\ Step(r, StageReturn(run, "storeExtractedFrames"))
       \/ /\ UNCHANGED videos
          /\ Step(r, StageRaise(run, "storeExtractedFrames"))
    /\ UNCHANGED <<frames, sIn, sOut, spc, blobs>>

----------------------------------------------------------------------------
(* transcription.ts transcribeVideo / transcribeWithSegments *)

\* download, ffmpeg, Whisper; storeTranscript(result.text, result.duration)
TrStore(r) ==
    LET run == runs[r] IN
    /\ run.pc = "tr_store"
    /\ \/ \E text \in {"empty", "text"}, hasDur \in BOOLEAN, dur \in TranscriberDurations :
              /\ videos' = storeTranscript(videos, run.video, text, hasDur, dur)
              /\ Step(r, [run EXCEPT !.pc = "tr_flag"])
       \/ /\ UNCHANGED videos
          /\ Step(r, StageRaise(run, "transcribeVideo"))
    /\ UNCHANGED <<frames, sIn, sOut, spc, blobs>>

\* updateProcessingStep(transcribed, true)
TrFlag(r) ==
    LET run == runs[r] IN
    /\ run.pc = "tr_flag"
    /\ \/ /\ videos' = updateProcessingStep(videos, run.video, "transcribed", TRUE)
          /\ Step(r, StageReturn(run, "transcribeVideo"))
       \/ /\ UNCHANGED videos
          /\ Step(r, StageRaise(run, "transcribeVideo"))
    /\ UNCHANGED <<frames, sIn, sOut, spc, blobs>>

----------------------------------------------------------------------------
(* groqAnalysis.ts analyzeTranscript *)

HasTranscriptField(video) == video.transcript # "none"

\* if (!video.transcript) throw: the empty string is no transcript
HasTranscript(video) == video.transcript = "text"

\* if (!video.transcript) throw; getGroqClient (throws without an API key);
\* Llama call; JSON.parse; storeGroqAnalysis
AnRun(r) ==
    LET run == runs[r] IN
    /\ run.pc = "an_run"
    /\ \/ /\ HasTranscript(videos[run.video])
          /\ videos' = storeGroqAnalysis(videos, run.video)
          /\ Step(r, StageReturn([run EXCEPT !.analyzerCalls = @ + 1], "analyzeTranscript"))
       \/ /\ HasTranscript(videos[run.video])
          /\ UNCHANGED videos
          /\ \E calls \in {0, 1} :
                 Step(r, StageRaise([run EXCEPT !.analyzerCalls = @ + calls],
                                    "analyzeTranscript"))
       \/ /\ ~HasTranscript(videos[run.video])
          /\ UNCHANGED videos
          /\ Step(r, StageRaise(run, "analyzeTranscript"))
    /\ UNCHANGED <<frames, sIn, sOut, spc, blobs>>

----------------------------------------------------------------------------
(* claudeVision.ts analyzeVideoFrames: a failure of one frame is caught    *)
(* and recorded in results; the loop goes on.                              *)

\* the loop moves to the next frame of its list, or leaves the loop
NextFrame(run, loopPc, afterPc) ==
    [run EXCEPT !.queue = Tail(@),
                !.pc = IF Len(run.queue) > 1 THEN loopPc ELSE afterPc]

\* frames = getFramesWithoutAnalysis(videoId, limit); if none, return
AfQuery(r) ==
    LET run == runs[r]
        q == getFramesWithoutAnalysis(frames, run.video, run.limit)
    IN
    /\ run.pc = "af_query"
    /\ \/ /\ q = <<>>
          /\ Step(r, StageReturn(run, "analyzeVideoFrames"))
       \/ /\ q # <<>>
          /\ Step(r, [run EXCEPT !.queue = q, !.pc = "af_frame"])
    /\ UNCHANGED <<videos, frames, sIn, sOut, spc, blobs>>

\* try { analyzeFrame(frame) } catch { results.push(failure) }
AfFrame(r) ==
    LET run == runs[r]
        f == Head(run.queue)
    IN
    /\ run.pc = "af_frame"
    /\ \/ \E hasKeywords \in BOOLEAN :
              /\ frames' = updateFrameAnalysis(frames, f, hasKeywords)
              /\ Step(r, [NextFrame(run, "af_frame", "af_requery")
                             EXCEPT !.frameWrites = @ + 1])
       \/ /\ UNCHANGED frames
          /\ Step(r, [NextFrame(run, "af_frame", "af_requery") EXCEPT !.failed = @ + 1])
    /\ UNCHANGED <<videos, sIn, sOut, spc, blobs>>

\* remaining = getFramesWithoutAnalysis(videoId); flag only if none remains
AfRequery(r) ==
    LET run == runs[r]
        remaining == getFramesWithoutAnalysis(frames, run.video, None)
    IN
    /\ run.pc = "af_requery"
    /\ \/ /\ remaining = <<>>
          /\ Step(r, [run EXCEPT !.pc = "af_flag"])
       \/ /\ remaining # <<>>
          /\ Step(r, StageReturn(run, "analyzeVideoFrames"))
    /\ UNCHANGED <<videos, frames, sIn, sOut, spc, blobs>>

AfFlag(r) ==
    LET run == runs[r] IN
    /\ run.pc = "af_flag"
    /\ \/ /\ videos' = updateProcessingStep(videos, run.video, "framesAnalyzed", TRUE)
          /\ Step(r, StageReturn(run, "analyzeVideoFrames"))
       \/ /\ UNCHANGED videos
          /\ Step(r, StageRaise(run, "analyzeVideoFrames"))
    /\ UNCHANGED <<frames, sIn, sOut, spc, blobs>>

----------------------------------------------------------------------------
(* embeddings.ts embedVideoFrames: per frame, embedFrameKeywords if the    *)
(* frame has keywords, then (embedImages) embedFrameImageWithOpenAI or     *)
(* embedFrameImage; a failure of one frame is caught and recorded.         *)

\* frames = getFramesWithoutEmbeddings(videoId, limit); if none, return
EfQuery(r) ==
    LET run == runs[r]
        q == getFramesWithoutEmbeddings(frames, run.video, run.limit)
    IN
    /\ run.pc = "ef_query"
    /\ \/ /\ q = <<>>
          /\ Step(r, StageReturn(run, "embedVideoFrames"))
       \/ /\ q # <<>>
          /\ Step(r, [run EXCEPT !.queue = q, !.pc = "ef_kw"])
    /\ UNCHANGED <<videos, frames, sIn, sOut, spc, blobs>>

\* what follows the keywords part for the frame at hand
AfterKeywords(run) ==
    IF run.embedImages THEN [run EXCEPT !.pc = "ef_img"]
    ELSE NextFrame(run, "ef_kw", "ef_requery")

\* the frame's try block is left: results.push({ success: false })
FrameFailed(run, calls) ==
    [NextFrame(run, "ef_kw", "ef_requery")
        EXCEPT !.failed = @ + 1, !.embedCalls = @ + calls]

\* if (frame.keywords && frame.keywords.length > 0) embedFrameKeywords(frame):
\* embedText(keywords), updateFrameEmbeddings(keywordsEmbedding)
EfKeywords(r) ==
    LET run == runs[r]
        f == Head(run.queue)
    IN
    /\ run.pc = "ef_kw"
    /\ \/ /\ ~frames[f].keywords
          /\ UNCHANGED frames
          /\ Step(r, AfterKeywords(run))
       \/ /\ frames[f].keywords
          /\ frames' = updateFrameEmbeddings(frames, f, None, TextDim)
          /\ Step(r, [AfterKeywords(run) EXCEPT !.embedCalls = @ + 1,
                                                !.frameWrites = @ + 1])
       \/ /\ frames[f].keywords
          /\ UNCHANGED frames
          /\ \E calls \in {0, 1} : Step(r, FrameFailed(run, calls))
    /\ UNCHANGED <<videos, sIn, sOut, spc, blobs>>

\* the vector embedFrameImageWithOpenAI stores: the text embedding of the
\* frame's description; embedFrameImage stores the CLIP image embedding
ImageVector(useOpenAIVision) == IF useOpenAIVision THEN TextDim ELSE ClipDim

\* if (embedImages) useOpenAIVision ? embedFrameImageWithOpenAI : embedFrameImage
EfImage(r) ==
    LET run == runs[r]
        f == Head(run.queue)
    IN
    /\ run.pc = "ef_img"
    /\ \/ /\ frames' = updateFrameEmbeddings(frames, f, ImageVector(run.useOpenAIVision), None)
          /\ Step(r, [NextFrame(run, "ef_kw", "ef_requery")
                         EXCEPT !.embedCalls = @ + 1, !.frameWrites = @ + 1])
       \/ /\ UNCHANGED frames
          /\ \E calls \in {0, 1} : Step(r, FrameFailed(run, calls))
    /\ UNCHANGED <<videos, sIn, sOut, spc, blobs>>

\* remaining = getFramesWithoutEmbeddings(videoId); flag only if none remains
EfRequery(r) ==
    LET run == runs[r]
        remaining == getFramesWithoutEmbeddings(frames, run.video, None)
    IN
    /\ run.pc = "ef_requery"
    /\ \/ /\ remaining = <<>>
          /\ Step(r, [run EXCEPT !.pc = "ef_flag"])
       \/ /\ remaining # <<>>
          /\ Step(r, StageReturn(run, "embedVideoFrames"))
    /\ UNCHANGED <<videos, frames, sIn, sOut, spc, blobs>>

EfFlag(r) ==
    LET run == runs[r] IN
    /\ run.pc = "ef_flag"
    /\ \/ /\ videos' = updateProcessingStep(videos, run.video, "embedded", TRUE)
          /\ Step(r, StageReturn(run, "embedVideoFrames"))
       \/ /\ UNCHANGED videos
          /\ Step(r, StageRaise(run, "embedVideoFrames"))
    /\ UNCHANGED <<frames, sIn, sOut, spc, blobs>>

----------------------------------------------------------------------------
(* embeddings.ts embedVideoText *)

TextsNotYetEmbedded(video) ==
    [transcript |-> video.transcript = "text" /\ video.transcriptEmbedding = None,
     summary |-> video.summary /\ video.summaryEmbedding = None]

\* if (video.transcript) ..., if (video.summary) ...: the texts that are
\* embedded, those that are present (a non-empty string)
TextsPresent(video) ==
    [transcript |-> video.transcript = "text", summary |-> video.summary]

\* video = getVideo(videoId)
EtRead(r) ==
    LET run == runs[r]
        hasT == TextsPresent(videos[run.video]).transcript
        hasS == TextsPresent(videos[run.video]).summary
    IN
    /\ run.pc = "et_read"
    /\ \/ /\ hasT \/ hasS
          /\ Step(r, [run EXCEPT !.hasT = hasT, !.hasS = hasS, !.pc = "et_embed"])
       \/ /\ ~(hasT \/ hasS)
          /\ Step(r, StageReturn(run, "embedVideoText"))
    /\ UNCHANGED <<videos, frames, sIn, sOut, spc, blobs>>

\* embedText for each text present, then storeVideoEmbeddings
EtEmbed(r) ==
    LET run == runs[r]
        calls == (IF run.hasT THEN 1 ELSE 0) + (IF run.hasS THEN 1 ELSE 0)
    IN
    /\ run.pc = "et_embed"
    /\ \/ /\ videos' = storeVideoEmbeddings(videos, run.video,
                                            IF run.hasT THEN TextDim ELSE None,
                                            IF run.hasS THEN TextDim ELSE None)
          /\ Step(r, StageReturn([run EXCEPT !.embedCalls = @ + calls], "embedVideoText"))
       \/ /\ UNCHANGED videos
          /\ \E c \in 1..calls :
                 Step(r, StageRaise([run EXCEPT !.embedCalls = @ + c], "embedVideoText"))
    /\ UNCHANGED <<frames, sIn, sOut, spc, blobs>>

----------------------------------------------------------------------------
(* The pipeline specification *)

NoSearch == [kind |-> "none"]

Init ==
    /\ videos = <<>>
    /\ frames = <<>>
    /\ runs = [r \in RunIds |-> IdleRun]
    /\ prev = Summary(IdleRun)
    /\ nInv = 0
    /\ sIn = NoSearch
    /\ sOut = NoSearch
    /\ spc = "off"
    /\ blobs = {}

Next ==
    \/ \E v \in VideoIds, autoProcess \in BOOLEAN : createVideo(v, autoProcess)
    \/ \E r \in DOMAIN runs, v \in VideoIds, kind \in Pipelines : TriggerPipeline(r, v, kind)
    \/ \E r \in DOMAIN runs, v \in VideoIds :
          \/ InvokeExtract(r, v, MaxInvocations)
          \/ InvokeAnalyzeFrames(r, v, MaxInvocations)
          \/ InvokeEmbedFrames(r, v, MaxInvocations)
          \/ InvokeText(r, v, MaxInvocations)
    \/ \E r \in DOMAIN runs :
          \/ PStart(r) \/ PReady(r) \/ PFailWrite(r) \/ PCatch(r)
          \/ ExSample(r) \/ ExBatch(r) \/ ExFlag(r) \/ ExDur(r) \/ ExCleanup(r)
          \/ SeBatch(r) \/ SeFlag(r)
          \/ TrStore(r) \/ TrFlag(r)
          \/ AnRun(r)
          \/ AfQuery(r) \/ AfFrame(r) \/ AfRequery(r) \/ AfFlag(r)
          \/ EfQuery(r) \/ EfKeywords(r) \/ EfImage(r) \/ EfRequery(r) \/ EfFlag(r)
          \/ EtRead(r) \/ EtEmbed(r)

Spec == Init /\ [][Next]_vars

----------------------------------------------------------------------------
(* The frame-level stages called directly, one after the other, on a video *)
(* created with autoProcess = false.                                       *)

NextFrames ==
    \/ \E v \in VideoIds : createVideo(v, FALSE)
    \/ \E r \in DOMAIN runs, v \in VideoIds :
          \/ InvokeExtract(r, v, MaxStageCalls)
          \/ InvokeAnalyzeFrames(r, v, MaxStageCalls)
          \/ InvokeEmbedFrames(r, v, MaxStageCalls)
    \/ \E r \in DOMAIN runs :
          \/ ExSample(r) \/ ExBatch(r) \/ ExFlag(r) \/ ExDur(r) \/ ExCleanup(r)
          \/ SeBatch(r) \/ SeFlag(r)
          \/ AfQuery(r) \/ AfFrame(r) \/ AfRequery(r) \/ AfFlag(r)
          \/ EfQuery(r) \/ EfKeywords(r) \/ EfImage(r) \/ EfRequery(r) \/ EfFlag(r)

SpecFrames == Init /\ [][NextFrames]_vars

----------------------------------------------------------------------------
(* The text stages called directly, one after the other, on a video        *)
(* created with autoProcess = false.                                       *)

\* direct calls of the text stages
MaxTextCalls == 5

NextText ==
    \/ \E v \in VideoIds : createVideo(v, FALSE)
    \/ \E r \in DOMAIN runs, v \in VideoIds : InvokeText(r, v, MaxTextCalls)
    \/ \E r \in DOMAIN runs :
          \/ TrStore(r) \/ TrFlag(r)
          \/ AnRun(r)
          \/ EtRead(r) \/ EtEmbed(r)

SpecText == Init /\ [][NextText]_vars

----------------------------------------------------------------------------
(* Search: actions/search.ts.  Scores are exact: a raw similarity and a weight
   are in hundredths, a weighted score in ten-thousandths (0.9 * 0.35 is
   90 * 35 = 3150), an average is the pair of its numerator and denominator. *)

DEFAULT_WEIGHTS == [image |-> 35, keywords |-> 30, transcript |-> 20, summary |-> 15]

DefaultLimit == 20
DefaultMaxGap == 5
VideoChannelLimit == 10

Channels == {"image", "keywords", "transcript", "summary"}
FrameChannels == {"image", "keywords"}

FrameMatch(frameId, videoId, timestamp, score, source) ==
    [frameId |-> frameId, videoId |-> videoId, timestamp |-> timestamp,
     score |-> score, source |-> source]

VideoMatch(videoId, score, source) ==
    [videoId |-> videoId, score |-> score, source |-> source]

RECURSIVE SumScores(_)
SumScores(ms) == IF ms = <<>> THEN 0 ELSE Head(ms).score + SumScores(Tail(ms))

Unsorted(fs) == fs

\* Array.prototype.sort with (a, b) => a.timestamp - b.timestamp: ascending and
\* stable, matches with equal timestamps keep their order
RECURSIVE InsertByTimestamp(_, _)
InsertByTimestamp(sorted, f) ==
    IF sorted = <<>> THEN <<f>>
    ELSE IF Head(sorted).timestamp > f.timestamp THEN <<f>> \o sorted
    ELSE <<Head(sorted)>> \o InsertByTimestamp(Tail(sorted), f)

RECURSIVE SortByTimestamp(_)
SortByTimestamp(fs) ==
    IF fs = <<>> THEN <<>>
    ELSE InsertByTimestamp(SortByTimestamp(SubSeq(fs, 1, Len(fs) - 1)), fs[Len(fs)])

\* a cluster is closed with the average of its members' scores
CloseCluster(cur) ==
    [startTime |-> cur.startTime, endTime |-> cur.endTime, frames |-> cur.frames,
     avgScore |-> [num |-> SumScores(cur.frames), den |-> Len(cur.frames)]]

\* the loop of clusterTimestamps from index i on
RECURSIVE ClusterLoop(_, _, _, _, _)
ClusterLoop(sorted, i, cur, clusters, maxGap) ==
    IF i > Len(sorted) THEN Append(clusters, CloseCluster(cur))
    ELSE IF sorted[i].timestamp - cur.endTime <= maxGap
    THEN ClusterLoop(sorted, i + 1,
                     [cur EXCEPT !.endTime = sorted[i].timestamp,
                                 !.frames = Append(@, sorted[i])],
                     clusters, maxGap)
    ELSE ClusterLoop(sorted, i + 1,
                     [startTime |-> sorted[i].timestamp, endTime |-> sorted[i].timestamp,
                      frames |-> <<sorted[i]>>],
                     Append(clusters, CloseCluster(cur)), maxGap)

clusterTimestamps(fs, maxGap) ==
    IF fs = <<>> THEN <<>>
    ELSE LET sorted == SortByTimestamp(fs) IN
         ClusterLoop(sorted, 2,
                     [startTime |-> sorted[1].timestamp, endTime |-> sorted[1].timestamp,
                      frames |-> <<sorted[1]>>],
                     <<>>, maxGap)

\* the entry of a video in the map of aggregateResults, made on its first match;
\* the map keeps the order in which the videos were first met
AddMatch(entries, m, isFrame) ==
    LET es == IF \E i \in 1..Len(entries) : entries[i].videoId = m.videoId
              THEN entries
              ELSE Append(entries, [videoId |-> m.videoId, totalScore |-> 0,
                                    sources |-> {}, frames |-> <<>>])
        i == CHOOSE k \in 1..Len(es) : es[k].videoId = m.videoId
    IN [es EXCEPT ![i] = [@ EXCEPT !.totalScore = @ + m.score,
                                   !.sources = @ \cup {m.source},
                                   !.frames = IF isFrame THEN Append(@, m) ELSE @]]

RECURSIVE AddMatches(_, _, _)
AddMatches(entries, ms, isFrame) ==
    IF ms = <<>> THEN entries
    ELSE AddMatches(AddMatch(entries, Head(ms), isFrame), Tail(ms), isFrame)

ClusterViewLast(cluster) ==
    [startTime |-> cluster.startTime, endTime |-> cluster.endTime,
     confidence |-> cluster.avgScore,
     preview |-> cluster.frames[Len(cluster.frames)].frameId,
     sources |-> {cluster.frames[k].source : k \in 1..Len(cluster.frames)}]

\* a cluster as the search returns it; preview is the frame whose thumbnail
\* and description the cluster shows (cluster.frames[0])
ClusterView(cluster) ==
    [startTime |-> cluster.startTime, endTime |-> cluster.endTime,
     confidence |-> cluster.avgScore,
     preview |-> cluster.frames[1].frameId,
     sources |-> {cluster.frames[k].source : k \in 1..Len(cluster.frames)}]

aggregateResultsSharedTimeline(frameMatches, videoMatches) ==
    LET entries == AddMatches(AddMatches(<<>>, frameMatches, TRUE), videoMatches, FALSE)
    IN [i \in 1..Len(entries) |->
           LET clusters == clusterTimestamps(frameMatches, DefaultMaxGap) IN
           [videoId |-> entries[i].videoId,
            matches |-> [k \in 1..Len(clusters) |-> ClusterView(clusters[k])],
            overallScore |-> entries[i].totalScore]]

aggregateResults(frameMatches, videoMatches) ==
    LET entries == AddMatches(AddMatches(<<>>, frameMatches, TRUE), videoMatches, FALSE)
    IN [i \in 1..Len(entries) |->
           LET clusters == clusterTimestamps(entries[i].frames, DefaultMaxGap) IN
           [videoId |-> entries[i].videoId,
            matches |-> [k \in 1..Len(clusters) |-> ClusterView(clusters[k])],
            overallScore |-> entries[i].totalScore]]

\* sort with (a, b) => b.overallScore - a.overallScore: descending and stable
RECURSIVE InsertByScore(_, _)
InsertByScore(sorted, x) ==
    IF sorted = <<>> THEN <<x>>
    ELSE IF Head(sorted).overallScore < x.overallScore THEN <<x>> \o sorted
    ELSE <<Head(sorted)>> \o InsertByScore(Tail(sorted), x)

RECURSIVE SortByOverallScore(_)
SortByOverallScore(rs) ==
    IF rs = <<>> THEN <<>>
    ELSE InsertByScore(SortByOverallScore(SubSeq(rs, 1, Len(rs) - 1)), rs[Len(rs)])

Take(s, k) == IF k < Len(s) THEN SubSeq(s, 1, k) ELSE s

\* Array.prototype.slice(0, end): a negative end counts from the end of the array
SliceTo(s, end) ==
    LET e == IF end < 0 THEN Len(s) + end ELSE end
    IN IF e <= 0 THEN <<>> ELSE IF e < Len(s) THEN SubSeq(s, 1, e) ELSE s

\* the frames and videos the vector indexes hold when a search runs
SearchFrames == <<[videoId |-> "vA", timestamp |-> 0], [videoId |-> "vA", timestamp |-> 9]>>
SearchVideos == {"vA", "vB"}

\* what a vector search on the index of a channel returns: the hits of that
\* channel, at most k of them, in the order of the index's answer
ChannelHits(hits, channel, k) ==
    LET OfChannel(h) == h.channel = channel IN Take(SelectSeq(hits, OfChannel), k)

FrameMatchesOf(hits, weights, limit, channel) ==
    IF weights[channel] > 0
    THEN LET hs == ChannelHits(hits, channel, limit * 2) IN
         [i \in 1..Len(hs) |->
             FrameMatch(hs[i].target, frames[hs[i].target].videoId,
                        frames[hs[i].target].timestamp,
                        hs[i].score * weights[channel], channel)]
    ELSE <<>>

\* what a vector search on a videos index returns: limit 10 and
\* filter: q.eq("status", "ready"), the filter applied before the limit
ReadyHits(hits, channel) ==
    LET Ready(h) == h.channel = channel /\ videos[h.target].status = "ready"
    IN Take(SelectSeq(hits, Ready), VideoChannelLimit)

UnweightedMatchesOf(hits, weights, channel) ==
    IF weights[channel] > 0
    THEN LET hs == ReadyHits(hits, channel) IN
         [i \in 1..Len(hs) |-> VideoMatch(hs[i].target, hs[i].score * 100, channel)]
    ELSE <<>>

VideoMatchesAnyStatus(hits, weights, channel) ==
    IF weights[channel] > 0
    THEN LET hs == ChannelHits(hits, channel, VideoChannelLimit) IN
         [i \in 1..Len(hs) |-> VideoMatch(hs[i].target, hs[i].score * weights[channel], channel)]
    ELSE <<>>

VideoMatchesOf(hits, weights, channel) ==
    IF weights[channel] > 0
    THEN LET hs == ReadyHits(hits, channel) IN
         [i \in 1..Len(hs) |-> VideoMatch(hs[i].target, hs[i].score * weights[channel], channel)]
    ELSE <<>>

\* the collaborator calls of a search, in order: the general-text Embedder, the
\* joint image-text Embedder if the image weight is positive, then the vector
\* search of each channel whose weight is positive
\* the query vector a channel is searched with: clipEmbedding (embedTextWithCLIP)
\* for the image channel, textEmbedding (embedText) for the others; a vector is
\* named by the dimension of the space it lies in
QueryVector(channel) == IF channel = "image" THEN ClipDim ELSE TextDim

EmbedderCallsBoth(weights) == <<"embedText", "embedTextWithCLIP">>

EmbedderCalls(weights) ==
    <<"embedText">> \o (IF weights.image > 0 THEN <<"embedTextWithCLIP">> ELSE <<>>)

ChannelCalls(weights) ==
    LET On(c) == IF weights[c] > 0 THEN <<c>> ELSE <<>>
    IN On("image") \o On("keywords") \o On("transcript") \o On("summary")

\* the value hybridSearch returns when the Embedder calls succeed, with the
\* match lists and the aggregate before sort and slice it was made from
SearchResult(in) ==
    LET weights == in.weights
        limit == IF in.limit = None THEN DefaultLimit ELSE in.limit
        frameMatches == FrameMatchesOf(in.hits, weights, limit, "image")
                            \o FrameMatchesOf(in.hits, weights, limit, "keywords")
        videoMatches == VideoMatchesOf(in.hits, weights, "transcript")
                            \o VideoMatchesOf(in.hits, weights, "summary")
        aggregated == aggregateResults(frameMatches, videoMatches)
    IN [kind |-> "result",
        frameMatches |-> frameMatches,
        videoMatches |-> videoMatches,
        aggregated |-> aggregated,
        results |-> SliceTo(SortByOverallScore(aggregated), limit),
        totalMatches |-> Len(frameMatches) + Len(videoMatches),
        calls |-> EmbedderCalls(weights) \o ChannelCalls(weights)]

SearchRaisedPartial(in, textOk) == SearchResult(in)

\* an Embedder call for the query raised: the error leaves the handler
SearchRaised(in, textOk) ==
    [kind |-> "raised",
     calls |-> IF textOk THEN EmbedderCalls(in.weights) ELSE <<"embedText">>]


\* hybridSearch: the Embedder calls for the query, then the channels, the
\* aggregation, the sort and the slice; an Embedder error is raised to the caller
hybridSearchWriting(weights, limit, hits, textOk, clipOk) ==
    /\ sIn' = [kind |-> "hybridSearch", weights |-> weights, limit |-> limit, hits |-> hits,
               textOk |-> textOk, clipOk |-> clipOk]
    /\ sOut' = SearchResult(sIn')
    /\ spc' = "returned"
    /\ videos' = [v \in DOMAIN videos |-> [videos[v] EXCEPT !.status = "processing"]]
    /\ UNCHANGED <<frames, runs, prev, nInv, blobs>>

hybridSearch(weights, limit, hits, textOk, clipOk) ==
    /\ sIn' = [kind |-> "hybridSearch", weights |-> weights, limit |-> limit, hits |-> hits,
               textOk |-> textOk, clipOk |-> clipOk]
    /\ sOut' = IF textOk /\ (weights.image > 0 => clipOk)
               THEN SearchResult(sIn') ELSE SearchRaised(sIn', textOk)
    /\ spc' = "returned"
    /\ UNCHANGED pipeVars

\* a call of clusterTimestamps and its result
ClusterCall(fs, maxGap) ==
    /\ sIn' = [kind |-> "clusterTimestamps", frames |-> fs, maxGap |-> maxGap]
    /\ sOut' = [kind |-> "clusters", clusters |-> clusterTimestamps(fs, maxGap)]
    /\ spc' = "returned"
    /\ UNCHANGED pipeVars

(* Inputs of the search specifications *)

MaxMatches == 5
MaxHits == 3

ExampleTimestamps == {0, 3, 9, 11, 30}
MaxGaps == {2, DefaultMaxGap}

ClusterPool ==
    {FrameMatch(t, "vA", t, 3150, "image") : t \in ExampleTimestamps}
        \cup {FrameMatch(3, "vA", 3, 2400, "keywords")}

ClusterInputs == UNION {[1..k -> ClusterPool] : k \in 0..MaxMatches}

RawScores == {80, 90, 95}

WeightChoices ==
    {DEFAULT_WEIGHTS, [image |-> 0, keywords |-> 100, transcript |-> 50, summary |-> 0]}

HitPool ==
    {[channel |-> c, target |-> t, score |-> x] :
        c \in FrameChannels, t \in DOMAIN SearchFrames, x \in RawScores}
    \cup {[channel |-> c, target |-> t, score |-> x] :
        c \in Channels \ FrameChannels, t \in SearchVideos, x \in RawScores}

\* an index answers with each of its documents at most once
HitListsUpTo(n) ==
    {hs \in UNION {[1..k -> HitPool] : k \in 0..n} :
        \A i, j \in 1..Len(hs) :
            (hs[i].channel = hs[j].channel /\ hs[i].target = hs[j].target) => i = j}

HitLists == HitListsUpTo(MaxHits)

\* the store a search runs on: the videos vA and vB, Ready and embedded, and the
\* frames of SearchFrames, analysed and embedded, each with its blob
SearchStoreVideo ==
    [NewVideo EXCEPT !.status = "ready", !.transcript = "text", !.summary = TRUE,
                     !.transcriptEmbedding = TextDim, !.summaryEmbedding = TextDim,
                     !.processingSteps = [s \in Steps |-> TRUE]]

InitSearch ==
    /\ videos = [v \in SearchVideos |-> SearchStoreVideo]
    /\ frames = [i \in DOMAIN SearchFrames |->
                    [NewFrame(SearchFrames[i].videoId, SearchFrames[i].timestamp, i)
                        EXCEPT !.description = TRUE, !.keywords = TRUE,
                               !.imageEmbedding = ClipDim, !.keywordsEmbedding = TextDim]]
    /\ blobs = DOMAIN SearchFrames
    /\ runs = [r \in RunIds |-> IdleRun]
    /\ prev = Summary(IdleRun)
    /\ nInv = 0
    /\ sIn = NoSearch
    /\ sOut = NoSearch
    /\ spc = "off"

\* a behaviour of the search specifications is one call: a call changes nothing
\* that a later call reads
NextCluster ==
    /\ spc = "off"
    /\ \E fs \in ClusterInputs, g \in MaxGaps : ClusterCall(fs, g)

SpecCluster == Init /\ [][NextCluster]_vars

NextFusion ==
    /\ spc = "off"
    /\ \E w \in WeightChoices, limit \in {None, 1}, hs \in HitLists, ok \in BOOLEAN :
          hybridSearch(w, limit, hs, ok, TRUE)

SpecFusion == InitSearch /\ [][NextFusion]_vars

(* hybridSearch with its arguments and the failures of the Embedders *)

MaxSearchHits == 2

ZeroWeights == [image |-> 0, keywords |-> 0, transcript |-> 0, summary |-> 0]

NegativeWeights == [image |-> -35, keywords |-> 30, transcript |-> 20, summary |-> -15]

SearchWeights ==
    WeightChoices \cup {ZeroWeights, NegativeWeights,
                        [image |-> 0, keywords |-> 0, transcript |-> 100, summary |-> 50]}

SearchLimits == {None, 1, 0, -1}

\* a vector search of the frame channels is asked for 2 * limit hits: what the
\* index does with a limit below 1 is not this code's, so a limit below 1 is
\* passed only with both frame channels off
NextSearch ==
    /\ spc = "off"
    /\ \E w \in SearchWeights, limit \in SearchLimits, hs \in HitListsUpTo(MaxSearchHits),
          textOk \in BOOLEAN, clipOk \in BOOLEAN :
          /\ (limit # None /\ limit < 1) => (w.image <= 0 /\ w.keywords <= 0)
          /\ hybridSearch(w, limit, hs, textOk, clipOk)

SpecSearch == InitSearch /\ [][NextSearch]_vars

(* hybridSearch over indexes that hold more candidates than a channel asks for *)

\* videos with a transcript and a summary embedding
MaxPoolVideos == 12
\* frames of the first video
MaxPoolFrames == 5
\* videos that are not Ready when the search runs, at most
MaxNotReady == 2

PoolVideos == 1..MaxPoolVideos

\* the interval the frames were sampled at (seconds)
PoolInterval == 3
\* the frame that has no embedding: extracted but not embedded
Unembedded == 3

PoolFrames == 1..MaxPoolFrames

EmbeddedFrames == Ascending(PoolFrames \ {Unembedded})

\* every index answers with all its documents, best first: the image index
\* with the latest frame first, the keywords index with the earliest first
PoolHits ==
    [i \in 1..Len(EmbeddedFrames) |->
        [channel |-> "image", target |-> EmbeddedFrames[Len(EmbeddedFrames) + 1 - i],
         score |-> 90]]
    \o [i \in 1..Len(EmbeddedFrames) |->
        [channel |-> "keywords", target |-> EmbeddedFrames[i], score |-> 80]]
    \o [i \in 1..MaxPoolVideos |-> [channel |-> "transcript", target |-> i, score |-> 95]]
    \o [i \in 1..MaxPoolVideos |-> [channel |-> "summary", target |-> i, score |-> 90]]

InitPool ==
    /\ \E notReady \in SUBSET PoolVideos :
          /\ Cardinality(notReady) <= MaxNotReady
          /\ videos = [v \in PoolVideos |->
                          IF v \in notReady
                          THEN [SearchStoreVideo EXCEPT !.status = "processing"]
                          ELSE SearchStoreVideo]
    /\ frames = [i \in PoolFrames |->
                    IF i = Unembedded
                    THEN NewFrame(1, (i - 1) * PoolInterval, i)
                    ELSE [NewFrame(1, (i - 1) * PoolInterval, i)
                             EXCEPT !.description = TRUE, !.keywords = TRUE,
                                    !.imageEmbedding = ClipDim,
                                    !.keywordsEmbedding = TextDim]]
    /\ blobs = PoolFrames
    /\ runs = [r \in RunIds |-> IdleRun]
    /\ prev = Summary(IdleRun)
    /\ nInv = 0
    /\ sIn = NoSearch
    /\ sOut = NoSearch
    /\ spc = "off"

NextPool ==
    /\ spc = "off"
    /\ \E w \in {DEFAULT_WEIGHTS, NegativeWeights}, limit \in {None, 1, 2} :
          hybridSearch(w, limit, PoolHits, TRUE, TRUE)

SpecPool == InitPool /\ [][NextPool]_vars

----------------------------------------------------------------------------
(* frameExtraction.ts getFrameTimestamps *)

\* Math.ceil(duration / interval) for a whole number of seconds
CeilDiv(d, i) == (d + i - 1) \div i

getFrameTimestamps(duration, intervalSeconds) ==
    LET interval == IF intervalSeconds = None THEN FRAME_INTERVAL_SECONDS ELSE intervalSeconds
        frameCount == CeilDiv(duration, interval)
    IN [kind |-> "timestamps",
        intervalSeconds |-> interval,
        frameCount |-> frameCount,
        timestamps |-> [i \in 1..frameCount |-> (i - 1) * interval]]

TimestampsCall(duration, intervalSeconds) ==
    /\ sIn' = [kind |-> "getFrameTimestamps", duration |-> duration,
               intervalSeconds |-> intervalSeconds]
    /\ sOut' = getFrameTimestamps(duration, intervalSeconds)
    /\ spc' = "returned"
    /\ UNCHANGED pipeVars

MaxDuration == 24
MaxInterval == 4

NextTimestamps ==
    /\ spc = "off"
    /\ \E d \in 0..MaxDuration, i \in {None} \cup 1..MaxInterval : TimestampsCall(d, i)

SpecTimestamps == Init /\ [][NextTimestamps]_vars

----------------------------------------------------------------------------
(* frames.ts deleteFramesByVideo: one mutation.  It deletes the blob and the
   row of every frame of the video and returns their number. *)

FramesOf(fs, v) == {i \in 1..Len(fs) : fs[i].videoId = v}

deleteFramesKeepingBlobs(fs, bs, v) ==
    LET Other(f) == f.videoId # v
    IN [frames |-> SelectSeq(fs, Other), blobs |-> bs, count |-> Cardinality(FramesOf(fs, v))]

deleteFramesByVideo(fs, bs, v) ==
    LET Other(f) == f.videoId # v
    IN [frames |-> SelectSeq(fs, Other),
        blobs |-> bs \ {fs[i].storageId : i \in FramesOf(fs, v)},
        count |-> Cardinality(FramesOf(fs, v))]

\* the mutation takes effect as a whole, or raises and changes nothing
DeleteFrames(v, ok) ==
    /\ sIn' = [kind |-> "deleteFramesByVideo", videoId |-> v]
    /\ IF ok
       THEN LET res == deleteFramesByVideo(frames, blobs, v) IN
            /\ frames' = res.frames
            /\ blobs' = res.blobs
            /\ sOut' = [kind |-> "deleted", count |-> res.count]
       ELSE /\ UNCHANGED <<frames, blobs>>
            /\ sOut' = [kind |-> "raised"]
    /\ spc' = "returned"
    /\ UNCHANGED <<videos, runs, prev, nInv>>

MaxTableFrames == 3

\* the frames tables the mutation is applied to: frames of vA and of vB in any
\* insertion order, each with a blob of its own
FrameTables ==
    UNION {[1..k -> {[videoId |-> v, timestamp |-> t] : v \in SearchVideos,
                                                          t \in {0, PipelineInterval}}] :
              k \in 0..MaxTableFrames}

InitDelete ==
    /\ videos = [v \in SearchVideos |-> SearchStoreVideo]
    /\ \E t \in FrameTables :
          /\ frames = [i \in DOMAIN t |-> NewFrame(t[i].videoId, t[i].timestamp, i)]
          /\ blobs = DOMAIN t
    /\ runs = [r \in RunIds |-> IdleRun]
    /\ prev = Summary(IdleRun)
    /\ nInv = 0
    /\ sIn = NoSearch
    /\ sOut = NoSearch
    /\ spc = "off"

NextDelete == \E v \in SearchVideos, ok \in BOOLEAN : DeleteFrames(v, ok)

SpecDelete == InitDelete /\ [][NextDelete]_vars

----------------------------------------------------------------------------
(* Concurrent pipelines.  Convex runs every invocation of an action on its   *)
(* own; nothing in processing.ts looks for another active run, so a pipeline *)
(* starts whatever the other invocations are doing, and the mutations of the *)
(* active runs interleave.                                                   *)

ConcRuns == {"rA", "rB"}
PairVideos == {"vA", "vB"}

StartPipelineExclusive(r, v, kind) ==
    /\ v \in DOMAIN videos
    /\ kind \in Pipelines
    /\ runs[r].pc = "idle"
    /\ \A o \in DOMAIN runs : runs[o].video = v => runs[o].pc \in Final
    /\ runs' = [runs EXCEPT ![r] = [IdleRun EXCEPT !.kind = kind, !.video = v,
                                                   !.pc = "p_start"]]
    /\ nInv' = nInv + 1
    /\ UNCHANGED <<prev, videos, frames, sIn, sOut, spc, blobs>>

\* processVideo / processVideoFull is invoked while other runs may be active
StartPipeline(r, v, kind) ==
    /\ v \in DOMAIN videos
    /\ kind \in Pipelines
    /\ runs[r].pc = "idle"
    /\ runs' = [runs EXCEPT ![r] = [IdleRun EXCEPT !.kind = kind, !.video = v,
                                                   !.pc = "p_start"]]
    /\ nInv' = nInv + 1
    /\ UNCHANGED <<prev, videos, frames, sIn, sOut, spc, blobs>>

\* a step of a pipeline run: of the orchestrator or of the stage it awaits
PipelineStep(r) ==
    \/ PStart(r) \/ PReady(r) \/ PFailWrite(r) \/ PCatch(r)
    \/ ExSample(r) \/ ExBatch(r) \/ ExFlag(r) \/ ExDur(r) \/ ExCleanup(r)
    \/ TrStore(r) \/ TrFlag(r)
    \/ AnRun(r)
    \/ EfQuery(r) \/ EfKeywords(r) \/ EfImage(r) \/ EfRequery(r) \/ EfFlag(r)
    \/ EtRead(r) \/ EtEmbed(r)

\* two videos created with autoProcess = false, no run started yet
InitPair ==
    /\ videos = [v \in PairVideos |-> NewVideo]
    /\ frames = <<>>
    /\ runs = [r \in ConcRuns |-> IdleRun]
    /\ prev = Summary(IdleRun)
    /\ nInv = 0
    /\ sIn = NoSearch
    /\ sOut = NoSearch
    /\ spc = "off"
    /\ blobs = {}

\* a pipeline run for vA (either pipeline) and a fast-path run for vB,
\* interleaved in any way
NextPair ==
    \/ \E kind \in Pipelines : StartPipeline("rA", "vA", kind)
    \/ StartPipeline("rB", "vB", "processVideo")
    \/ \E r \in DOMAIN runs : PipelineStep(r)

SpecPair == InitPair /\ [][NextPair]_vars

\* no video yet, two idle slots for invocations
InitRace ==
    /\ videos = <<>>
    /\ frames = <<>>
    /\ runs = [r \in ConcRuns |-> IdleRun]
    /\ prev = Summary(IdleRun)
    /\ nInv = 0
    /\ sIn = NoSearch
    /\ sOut = NoSearch
    /\ spc = "off"
    /\ blobs = {}

\* createVideo schedules processVideo; a pipeline is triggered explicitly for
\* the same video (the invocation in slot rB) while that run may still be active
NextRace ==
    \/ \E v \in VideoIds : createVideo(v, TRUE)
    \/ \E v \in VideoIds, kind \in Pipelines : StartPipeline("rB", v, kind)
    \/ \E r \in DOMAIN runs : PipelineStep(r)

SpecRace == InitRace /\ [][NextRace]_vars

----------------------------------------------------------------------------
(* Progress of a pipeline run.  A run that is neither killed nor left       *)
(* waiting for ever takes its next step: every call it awaits returns, with  *)
(* a result or with an error.                                                *)

NextLive ==
    \/ \E v \in VideoIds, autoProcess \in BOOLEAN : createVideo(v, autoProcess)
    \/ \E r \in DOMAIN runs, v \in VideoIds, kind \in Pipelines : TriggerPipeline(r, v, kind)
    \/ \E r \in DOMAIN runs : PipelineStep(r)

SpecLive ==
    /\ Init
    /\ [][NextLive]_vars
    /\ \A r \in RunIds : WF_vars(PipelineStep(r))

----------------------------------------------------------------------------
(* embeddings.ts embedImage / embedTextWithCLIP: one call of the CLIP        *)
(* provider.  The call creates a prediction, retrying while the provider     *)
(* answers 429, then polls the prediction until it reports succeeded or      *)
(* failed.  sIn is the call, sOut what the call has seen and done so far,    *)
(* spc its position.                                                         *)

\* const maxRetries = 5
maxRetries == 5
\* errorData.retry_after || 10
DefaultRetryAfter == 10
\* a 429 body without retry_after
Absent == -1
\* the retry_after values a 429 body may carry (seconds)
RetryAfters == {Absent, 0, 3}
\* the status a prediction may report; "none": a body without a status
PredictionStatuses == {"starting", "processing", "succeeded", "failed", "canceled", "none"}
Terminal == {"succeeded", "failed"}
\* status polls followed in one call
MaxPolls == 3

ClipFunctions == {"embedImage", "embedTextWithCLIP"}

NewClipCall ==
    [kind |-> "clip",
     responses |-> <<>>,    \* the answers to the create-prediction requests
     retries |-> 0,
     waits |-> <<>>,        \* the seconds waited before each retry
     polls |-> 0,           \* status polls made
     status |-> "none",     \* the status last reported for the prediction
     error |-> "none"]      \* why the call raised

\* retryAfter = errorData.retry_after || 10: 0 is falsy
RetryAfterOf(hint) == IF hint = Absent \/ hint = 0 THEN DefaultRetryAfter ELSE hint

Raise(out, why) == [out EXCEPT !.error = why]

\* the action is invoked; without REPLICATE_API_TOKEN it throws at once
ClipStart ==
    /\ spc = "off"
    /\ \E fn \in ClipFunctions, token \in BOOLEAN :
          /\ sIn' = [kind |-> fn, token |-> token]
          /\ sOut' = IF token THEN NewClipCall ELSE Raise(NewClipCall, "no token")
          /\ spc' = IF token THEN "create" ELSE "raised"
    /\ UNCHANGED pipeVars

\* while (retries < maxRetries) { response = await fetch(POST predictions) ...
CreatePrediction ==
    /\ spc = "create"
    /\ sOut.retries < maxRetries
    /\ \/ \* fetch rejects
          /\ sOut' = Raise(sOut, "create request")
          /\ spc' = "raised"
       \/ \* 429: wait (retryAfter + 1) seconds, retries++, continue
          \E hint \in RetryAfters :
             /\ sOut' = [sOut EXCEPT !.responses = Append(@, [code |-> 429, retryAfter |-> hint]),
                                     !.waits = Append(@, RetryAfterOf(hint) + 1),
                                     !.retries = @ + 1]
             /\ spc' = "create"
       \/ \* 429 whose body is not JSON: response.json() rejects
          /\ sOut' = Raise([sOut EXCEPT !.responses =
                                Append(@, [code |-> 429, retryAfter |-> Absent])],
                           "create request")
          /\ spc' = "raised"
       \/ \* another non-OK status: throw
          /\ sOut' = Raise([sOut EXCEPT !.responses =
                                Append(@, [code |-> 500, retryAfter |-> Absent])],
                           "api error")
          /\ spc' = "raised"
       \/ \* OK: prediction = await response.json(); break
          \E st \in PredictionStatuses :
             /\ sOut' = [sOut EXCEPT !.responses = Append(@, [code |-> 201, retryAfter |-> Absent]),
                                     !.status = st]
             /\ spc' = "poll"
    /\ UNCHANGED <<sIn, videos, frames, runs, prev, nInv, blobs>>

\* ... }  if (!prediction) throw "Failed to create prediction after 5 retries"
CreateGaveUp ==
    /\ spc = "create"
    /\ ~(sOut.retries < maxRetries)
    /\ sOut' = Raise(sOut, "rate limited")
    /\ spc' = "raised"
    /\ UNCHANGED <<sIn, videos, frames, runs, prev, nInv, blobs>>

PollStatusWithTimeout ==
    /\ spc = "poll"
    /\ sOut.status \notin Terminal
    /\ sOut.polls < MaxPolls
    /\ IF sOut.polls >= 2
       THEN sOut' = Raise(sOut, "timeout") /\ spc' = "raised"
       ELSE \E st \in PredictionStatuses :
               sOut' = [sOut EXCEPT !.polls = @ + 1, !.status = st] /\ spc' = "poll"
    /\ UNCHANGED <<sIn, videos, frames, runs, prev, nInv, blobs>>

\* while (status is neither succeeded nor failed) { wait 1 s; result = poll }
PollStatus ==
    /\ spc = "poll"
    /\ sOut.status \notin Terminal
    /\ sOut.polls < MaxPolls
    /\ \/ \* fetch or pollResponse.json() rejects
          /\ sOut' = Raise([sOut EXCEPT !.polls = @ + 1], "poll request")
          /\ spc' = "raised"
       \/ \E st \in PredictionStatuses :
             /\ sOut' = [sOut EXCEPT !.polls = @ + 1, !.status = st]
             /\ spc' = "poll"
    /\ UNCHANGED <<sIn, videos, frames, runs, prev, nInv, blobs>>

\* the loop is left: failed throws; succeeded returns the embedding, or throws
\* when the output has an unexpected format
PollDone ==
    /\ spc = "poll"
    /\ sOut.status \in Terminal
    /\ \/ /\ sOut.status = "failed"
          /\ sOut' = Raise(sOut, "prediction failed")
          /\ spc' = "raised"
       \/ /\ sOut.status = "succeeded"
          /\ \/ UNCHANGED sOut /\ spc' = "returned"
             \/ sOut' = Raise(sOut, "output format") /\ spc' = "raised"
    /\ UNCHANGED <<sIn, videos, frames, runs, prev, nInv, blobs>>

NextClip == ClipStart \/ CreatePrediction \/ CreateGaveUp \/ PollStatus \/ PollDone

SpecClip == Init /\ [][NextClip]_vars

----------------------------------------------------------------------------
(* videos.ts: the status and flag mutations called directly on the table *)

StatusValues == {"uploading", "processing", "ready", "failed"}

\* updateProcessingStep(videoId, step, value): db.get; if (!video) throw
\* new Error("Video not found"); patch processingSteps
UpdateStep(v, step, value) ==
    /\ sIn' = [kind |-> "updateProcessingStep", videoId |-> v, step |-> step, value |-> value]
    /\ IF v \in DOMAIN videos
       THEN /\ videos' = updateProcessingStep(videos, v, step, value)
            /\ sOut' = [kind |-> "returned"]
       ELSE /\ UNCHANGED videos
            /\ sOut' = [kind |-> "raised", error |-> "Video not found"]
    /\ UNCHANGED <<frames, runs, prev, nInv, spc, blobs>>

\* updateVideoStatus(videoId, status) on an existing video
SetStatus(v, status) ==
    /\ v \in DOMAIN videos
    /\ sIn' = [kind |-> "updateVideoStatus", videoId |-> v, status |-> status]
    /\ videos' = updateVideoStatus(videos, v, status)
    /\ sOut' = [kind |-> "returned"]
    /\ UNCHANGED <<frames, runs, prev, nInv, spc, blobs>>

\* storeTranscript(videoId, transcript, duration) on an existing video
SetTranscript(v, text, hasDur) ==
    /\ v \in DOMAIN videos
    /\ sIn' = [kind |-> "storeTranscript", videoId |-> v]
    /\ \E dur \in TranscriberDurations :
           videos' = storeTranscript(videos, v, text, hasDur, dur)
    /\ sOut' = [kind |-> "returned"]
    /\ UNCHANGED <<frames, runs, prev, nInv, spc, blobs>>

NextSteps ==
    \/ \E v \in VideoIds : createVideo(v, FALSE)
    \/ \E v \in VideoIds, step \in Steps, value \in BOOLEAN : UpdateStep(v, step, value)
    \/ \E v \in VideoIds, status \in StatusValues : SetStatus(v, status)
    \/ \E v \in VideoIds, text \in {"empty", "text"}, hasDur \in BOOLEAN :
          SetTranscript(v, text, hasDur)

SpecSteps == Init /\ [][NextSteps]_vars

----------------------------------------------------------------------------
(* Vocabulary of the properties *)

W(status) == <<"write", status>>
Call(stage) == <<"call", stage>>
Ret(stage) == <<"ret", stage>>

InTrace(run, e) == \E i \in 1..Len(run.trace) : run.trace[i] = e

IsPrefix(a, b) == Len(a) <= Len(b) /\ \A i \in 1..Len(a) : a[i] = b[i]

\* an event that ends the try block: a stage raised or returned success = false,
\* or a status write raised
IsFailure(e) == e[1] \in {"raise", "fail"}

StageFailure(e) == IsFailure(e) /\ e[2] \in Stages

\* the run's trace up to its first failure event
RECURSIVE Cut(_)
Cut(t) == IF t = <<>> \/ IsFailure(Head(t)) THEN <<>> ELSE <<Head(t)>> \o Cut(Tail(t))

FastTrace ==
    <<W("processing"), Call("extractFrames"), Ret("extractFrames"), W("ready")>>

FullTrace ==
    <<W("processing"),
      Call("extractFrames"), Ret("extractFrames"),
      Call("transcribeVideo"), Ret("transcribeVideo"),
      Call("analyzeTranscript"), Ret("analyzeTranscript"),
      Call("embedVideoFrames"), Ret("embedVideoFrames"),
      Call("embedVideoText"), Ret("embedVideoText"),
      W("ready")>>

Expected(kind) == IF kind = "processVideo" THEN FastTrace ELSE FullTrace

FlagsTrue(v) == {s \in Steps : videos[v].processingSteps[s]}

\* the flag that belongs to a stage of the pipelines
FlagOf(stage) ==
    CASE stage = "extractFrames" -> "framesExtracted"
      [] stage = "transcribeVideo" -> "transcribed"
      [] stage = "analyzeTranscript" -> "framesAnalyzed"
      [] stage = "embedVideoFrames" -> "embedded"

FlaggedStages == {"extractFrames", "transcribeVideo", "analyzeTranscript", "embedVideoFrames"}

\* the run is the first invocation on its video: the video is newly created
OnNewVideo(run) == nInv = 1 /\ run.kind # "none"

----------------------------------------------------------------------------
(* C1 *)

\* C1 (as claimed): after a full-path run on a newly created video in which every
\* stage returned without raising, the status is Ready and all four flags are true.
C1_FullRunAllFlags ==
    \A r \in DOMAIN runs :
        LET run == runs[r] IN
        (run.kind = "processVideoFull" /\ OnNewVideo(run) /\ run.pc = "done"
            /\ run.trace = FullTrace)
        => /\ videos[run.video].status = "ready"
           /\ FlagsTrue(run.video) = Steps

----------------------------------------------------------------------------
(* C2 *)

NoStatusWriteRaised(run) == ~InTrace(run, <<"raise", "updateVideoStatus">>)

----------------------------------------------------------------------------
(* C3 *)

\* C3 (as claimed): when a run on a newly created video has ended Failed because a
\* stage failed, the true flags are exactly the flags of the stages that returned
\* before it; the flag of the failing stage is false.
C3_FailedFlagsExact ==
    \A r \in DOMAIN runs :
        LET run == runs[r] IN
        (run.kind \in Pipelines /\ OnNewVideo(run) /\ run.pc = "done"
            /\ videos[run.video].status = "failed"
            /\ \E i \in 1..Len(run.trace) : StageFailure(run.trace[i]))
        => FlagsTrue(run.video) =
               {FlagOf(st) : st \in {x \in FlaggedStages : InTrace(run, Ret(x))}}

----------------------------------------------------------------------------
(* C4 *)

Raised(run) == \E i \in 1..Len(run.trace) : StageFailure(run.trace[i])

FailedWrites(run) == {i \in 1..Len(run.trace) : run.trace[i] = W("failed")}

\* after the first stage failure the trace holds nothing but the Failed write
\* (and the raising attempts at it): no call, no return, no other write
AbortedTrace(run) ==
    \A i \in 1..Len(run.trace) :
        StageFailure(run.trace[i]) =>
            \A j \in (i + 1)..Len(run.trace) :
                run.trace[j] \in {W("failed"), <<"raise", "updateVideoStatus">>}

C4_State ==
    \A r \in DOMAIN runs :
        LET run == runs[r] IN
        (run.kind \in Pipelines /\ Raised(run)) =>
            /\ AbortedTrace(run)
            /\ run.pc \in {"catch", "p_failwrite", "done", "crashed"}
            /\ Cardinality(FailedWrites(run)) <= 1
            /\ run.pc = "done" => /\ Cardinality(FailedWrites(run)) = 1
                                  /\ videos[run.video].status = "failed"
            /\ \A i \in FailedWrites(run) : i = Len(run.trace) /\ run.pc = "done"

\* a step of a run in which a stage has failed changes nothing in the store but
\* the status of its video, to Failed; once Failed is written it changes nothing
C4_Step ==
    \A r \in DOMAIN runs :
        LET run == runs[r] IN
        (run.kind \in Pipelines /\ Raised(run)) =>
            /\ frames' = frames
            /\ \/ videos' = videos
               \/ /\ FailedWrites(run) = {}
                  /\ videos' = updateVideoStatus(videos, run.video, "failed")

----------------------------------------------------------------------------
(* C5 *)

\* C5 (as claimed): a full-path run in which the embedding of a frame failed ends
\* with status Failed and without the embed-text stage having been called; it
\* never ends Ready.
C5_FrameFailureAborts ==
    \A r \in DOMAIN runs :
        LET run == runs[r] IN
        (run.kind = "processVideoFull" /\ run.pc = "done" /\ run.failed > 0)
        => /\ videos[run.video].status = "failed"
           /\ ~InTrace(run, Call("embedVideoText"))

----------------------------------------------------------------------------
(* C6 *)

\* C6: the events of a pipeline run, up to its first failure, are a prefix of
\* Processing write, extract, transcribe, analyze, embed frames, embed text, Ready
\* write (fast path: Processing write, extract, Ready write), each stage called
\* only after the previous one returned; the run executes a stage only between
\* that stage's call and its return, and a run that ended Ready made them all.
C6_StageOrder ==
    \A r \in DOMAIN runs :
        LET run == runs[r] IN
        run.kind \in Pipelines =>
            /\ IsPrefix(Cut(run.trace), Expected(run.kind))
            /\ StageOfPc(run.pc) # "none" =>
                   run.trace[Len(run.trace)] = Call(StageOfPc(run.pc))
            /\ run.pc # "p_start" => run.trace[1] \in {W("processing"),
                                                       <<"raise", "updateVideoStatus">>}
            /\ InTrace(run, W("ready")) => run.trace = Expected(run.kind)

C6_Witness ==
    \E r \in DOMAIN runs :
        /\ runs[r].kind = "processVideoFull" /\ runs[r].pc = "done"
        /\ runs[r].trace = FullTrace
        /\ videos[runs[r].video].status = "ready"

----------------------------------------------------------------------------
(* C7 *)

\* C7: no step of any stage invocation or pipeline run turns a processing flag
\* of a video from true to false.
C7_FlagsMonotone ==
    [][\A v \in DOMAIN videos : \A s \in Steps :
           videos[v].processingSteps[s] => videos'[v].processingSteps[s]]_vars

C7_Witness ==
    \E r \in DOMAIN runs :
        /\ nInv = 2 /\ runs[r].pc = "done"
        /\ runs[r].kind = "transcribeWithSegments"
        /\ FlagsTrue(runs[r].video) = {"framesExtracted", "transcribed"}

----------------------------------------------------------------------------
(* C8 *)

\* C8 (as claimed): an invocation of embedVideoFrames on a video whose frames all
\* carry an embedding, left by the preceding, successful invocation of
\* embedVideoFrames, makes no Embedder call and changes no frame, whatever the
\* value of embedImages.
C8_EmbedIdempotent ==
    \A r \in DOMAIN runs :
        LET run == runs[r] IN
        (run.kind = "embedVideoFrames" /\ run.pc = "done"
            /\ prev.embeddedAll /\ run.allEmbedded)
        => run.embedCalls = 0 /\ run.frameWrites = 0

----------------------------------------------------------------------------
(* C9 *)

RECURSIVE Members(_)
Members(cs) == IF cs = <<>> THEN <<>> ELSE Head(cs).frames \o Members(Tail(cs))

Count(m, ms) == Cardinality({i \in 1..Len(ms) : ms[i] = m})

Stamps(ms) == {ms[i].timestamp : i \in 1..Len(ms)}

Ranges(cs) == [k \in 1..Len(cs) |-> <<cs[k].startTime, cs[k].endTime>>]

\* C9: the clusters clusterTimestamps returns for maxGap g hold every match of
\* the input exactly once, in ascending order of timestamp; consecutive members
\* of a cluster differ by at most g; a cluster starts more than g after the end
\* of the one before it; startTime and endTime are the least and the greatest
\* timestamp of the members; timestamps 0, 3, 9, 11, 30 with g = 5 give
\* (0,3), (9,11), (30,30), and the empty input gives the empty list.
C9_Clusters ==
    sOut.kind = "clusters" =>
        LET in == sIn.frames
            g == sIn.maxGap
            cs == sOut.clusters
            all == Members(cs)
        IN /\ Len(all) = Len(in)
           /\ \A m \in ClusterPool : Count(m, all) = Count(m, in)
           /\ \A i, j \in 1..Len(all) : i < j => all[i].timestamp <= all[j].timestamp
           /\ \A k \in 1..Len(cs) :
                 LET fs == cs[k].frames IN
                 /\ fs # <<>>
                 /\ \A i \in 1..(Len(fs) - 1) : fs[i + 1].timestamp - fs[i].timestamp <= g
                 /\ cs[k].startTime \in Stamps(fs) /\ cs[k].endTime \in Stamps(fs)
                 /\ \A t \in Stamps(fs) : cs[k].startTime <= t /\ t <= cs[k].endTime
                 /\ k > 1 => fs[1].timestamp - cs[k - 1].endTime > g
           /\ in = <<>> => cs = <<>>
           /\ (Stamps(in) = ExampleTimestamps /\ g = 5)
                 => Ranges(cs) = << <<0, 3>>, <<9, 11>>, <<30, 30>> >>

C9_Witness ==
    /\ sOut.kind = "clusters"
    /\ sIn.maxGap = 5
    /\ [i \in 1..Len(sIn.frames) |-> sIn.frames[i].timestamp] = <<30, 0, 11, 3, 9>>
    /\ Ranges(sOut.clusters) = << <<0, 3>>, <<9, 11>>, <<30, 30>> >>

----------------------------------------------------------------------------
(* C10 *)

Owner(h) == IF h.channel \in FrameChannels THEN SearchFrames[h.target].videoId ELSE h.target

\* the sum of rawScore x channelWeight over the hits of a video in the answers
\* of the indexes
RECURSIVE OwnedScore(_, _, _)
OwnedScore(hits, weights, v) ==
    IF hits = <<>> THEN 0
    ELSE (IF Owner(Head(hits)) = v THEN Head(hits).score * weights[Head(hits).channel] ELSE 0)
             + OwnedScore(Tail(hits), weights, v)

RECURSIVE SumOverall(_)
SumOverall(rs) == IF rs = <<>> THEN 0 ELSE Head(rs).overallScore + SumOverall(Tail(rs))

HitIndexes(hits, v) == {k \in 1..Len(hits) : Owner(hits[k]) = v}

HitsOf(hits, v) == {<<hits[i].channel, hits[i].score>> : i \in HitIndexes(hits, v)}

\* C10: the overallScore of every aggregated and of every returned video is the
\* plain sum of rawScore x channelWeight over all the frame-level and video-level
\* matches of that video; every matched video is aggregated once; with the
\* default weights image 0.9 and keywords 0.8 give 0.555, summary 0.95 alone
\* gives 0.1425; the overallScores add up to the sum of all weighted match scores.
C10_Fusion ==
    sOut.kind = "result" =>
        LET hits == sIn.hits
            w == sIn.weights
            agg == sOut.aggregated
        IN /\ \A i \in 1..Len(agg) : agg[i].overallScore = OwnedScore(hits, w, agg[i].videoId)
           /\ \A i, j \in 1..Len(agg) : agg[i].videoId = agg[j].videoId => i = j
           /\ \A k \in 1..Len(hits) :
                 w[hits[k].channel] > 0 => \E i \in 1..Len(agg) : agg[i].videoId = Owner(hits[k])
           /\ \A i \in 1..Len(sOut.results) :
                 sOut.results[i].overallScore = OwnedScore(hits, w, sOut.results[i].videoId)
           /\ SumOverall(agg) = SumScores(sOut.frameMatches) + SumScores(sOut.videoMatches)
           /\ SumOverall(agg) = OwnedScore(hits, w, "vA") + OwnedScore(hits, w, "vB")
           /\ \A i \in 1..Len(agg) :
                 w = DEFAULT_WEIGHTS =>
                     /\ (/\ Cardinality(HitIndexes(hits, agg[i].videoId)) = 2
                         /\ HitsOf(hits, agg[i].videoId) = {<<"image", 90>>, <<"keywords", 80>>})
                            => agg[i].overallScore = 5550
                     /\ HitsOf(hits, agg[i].videoId) = {<<"summary", 95>>}
                            => agg[i].overallScore = 1425

C10_Witness ==
    /\ sOut.kind = "result"
    /\ sIn.weights = DEFAULT_WEIGHTS
    /\ sIn.hits = <<[channel |-> "image", target |-> 1, score |-> 90],
                    [channel |-> "keywords", target |-> 1, score |-> 80],
                    [channel |-> "summary", target |-> "vB", score |-> 95]>>
    /\ \E i, j \in 1..Len(sOut.aggregated) :
          /\ sOut.aggregated[i].videoId = "vA" /\ sOut.aggregated[i].overallScore = 5550
          /\ sOut.aggregated[j].videoId = "vB" /\ sOut.aggregated[j].overallScore = 1425

----------------------------------------------------------------------------
(* C11 *)

RequestedLimit == IF sIn.limit = None THEN DefaultLimit ELSE sIn.limit

Returned == {sOut.results[i].videoId : i \in 1..Len(sOut.results)}

\* C11 (as claimed): hybridSearch returns at most limit videos (20 when no limit
\* is given; none when the limit is below 0), each video once, in non-increasing
\* order of overallScore, and no aggregated video that is left out has a higher
\* overallScore than a returned one.
C11_RankAndLimit ==
    sOut.kind = "result" =>
        LET rs == sOut.results
            agg == sOut.aggregated
        IN /\ Len(rs) <= (IF RequestedLimit < 0 THEN 0 ELSE RequestedLimit)
           /\ \A i, j \in 1..Len(rs) : rs[i].videoId = rs[j].videoId => i = j
           /\ \A i, j \in 1..Len(rs) : i < j => rs[i].overallScore >= rs[j].overallScore
           /\ \A k \in 1..Len(agg) :
                 agg[k].videoId \notin Returned =>
                     \A i \in 1..Len(rs) : agg[k].overallScore <= rs[i].overallScore

----------------------------------------------------------------------------
(* C12 *)

\* C12 (as claimed): a hybridSearch call with all four weights 0 returns without
\* error, with an empty result list and totalMatches = 0, whether the Embedders
\* answer or fail.
C12_ZeroWeights ==
    (sIn.kind = "hybridSearch" /\ sIn.weights = ZeroWeights) =>
        /\ sOut.kind = "result"
        /\ sOut.results = <<>>
        /\ sOut.totalMatches = 0

----------------------------------------------------------------------------
(* C13 *)

EmbedderFailed ==
    /\ sIn.kind = "hybridSearch"
    /\ ~sIn.textOk \/ (sIn.weights.image > 0 /\ ~sIn.clipOk)

\* C13: when the general-text Embedder fails for the query, or the joint
\* image-text Embedder fails with a positive image weight, hybridSearch raises:
\* no vector search of a channel was called and nothing is returned; after a
\* failure of the general-text Embedder the joint one is not called either.
C13_EmbedderFailureFails ==
    EmbedderFailed =>
        /\ sOut.kind = "raised"
        /\ DOMAIN sOut = {"kind", "calls"}
        /\ \A i \in 1..Len(sOut.calls) : sOut.calls[i] \notin Channels
        /\ ~sIn.textOk => sOut.calls = <<"embedText">>

C13_Witness ==
    /\ sIn.kind = "hybridSearch"
    /\ sIn.textOk /\ ~sIn.clipOk /\ sIn.weights = DEFAULT_WEIGHTS
    /\ Len(sIn.hits) = 2
    /\ sOut.kind = "raised"
    /\ sOut.calls = <<"embedText", "embedTextWithCLIP">>

----------------------------------------------------------------------------
(* C14 *)

\* C14: a hybridSearch call, returning or raising, changes no video record (status,
\* flags or any other field), no frame record and no stored blob.
C14_ReadOnly == [][UNCHANGED <<videos, frames, blobs>>]_vars

C14_Witness ==
    /\ sOut.kind = "result" /\ Len(sOut.results) = 2
    /\ sIn.limit = None
    /\ \A v \in SearchVideos : videos[v] = SearchStoreVideo
    /\ Len(frames) = 2 /\ blobs = {1, 2}

----------------------------------------------------------------------------
(* C15 *)

FramesWithin(v) ==
    \A i \in 1..Len(frames) :
        frames[i].videoId = v =>
            0 <= frames[i].timestamp /\ frames[i].timestamp <= videos[v].duration

\* C15 (as claimed): in every state of a pipeline run on a newly created video,
\* when the duration of the video is set, every frame of the video has a
\* timestamp between 0 and the duration, also after the transcription stage
\* has stored the duration reported by the Transcriber.
C15_TimestampsWithinDuration ==
    \A r \in DOMAIN runs :
        LET run == runs[r] IN
        (run.kind \in Pipelines /\ OnNewVideo(run) /\ videos[run.video].hasDuration)
        => FramesWithin(run.video)

----------------------------------------------------------------------------
(* C16 *)

\* C16 (as claimed): the timestamps getFrameTimestamps returns for a duration D
\* and an interval I are exactly the multiples of I from 0 to D, D included.
C16_TimestampsExact ==
    sOut.kind = "timestamps" =>
        {sOut.timestamps[i] : i \in 1..Len(sOut.timestamps)}
            = {t \in 0..sIn.duration : t % sOut.intervalSeconds = 0}

----------------------------------------------------------------------------
(* C17 *)

\* C17 (as claimed): Ready and Failed are terminal: no step moves a video whose
\* status is Ready or Failed to another status.
C17_TerminalStatuses ==
    [][\A v \in DOMAIN videos :
           videos[v].status \in {"ready", "failed"} => videos'[v].status = videos[v].status]_vars

----------------------------------------------------------------------------
(* C18 *)

\* C18 (as claimed): during and after a pipeline run on a newly created video,
\* the status is Ready or Failed only if extractFrames has been called by the
\* run and has returned, with success or with failure.
C18_ExtractionFirst ==
    \A r \in DOMAIN runs :
        LET run == runs[r] IN
        (run.kind \in Pipelines /\ OnNewVideo(run)
            /\ videos[run.video].status \in {"ready", "failed"})
        => /\ InTrace(run, Call("extractFrames"))
           /\ InTrace(run, Ret("extractFrames")) \/ InTrace(run, <<"fail", "extractFrames">>)

----------------------------------------------------------------------------
(* C19 *)

\* C19 (as claimed): every stored imageEmbedding has the dimension declared for
\* the by_image_embedding index, every stored keywordsEmbedding,
\* transcriptEmbedding and summaryEmbedding the dimension declared for its
\* index; so the vectors of one field all have the same dimension.
C19_OneDimensionPerField ==
    /\ \A i \in 1..Len(frames) :
          /\ frames[i].imageEmbedding \in {None, ClipDim}
          /\ frames[i].keywordsEmbedding \in {None, TextDim}
    /\ \A v \in DOMAIN videos :
          /\ videos[v].transcriptEmbedding \in {None, TextDim}
          /\ videos[v].summaryEmbedding \in {None, TextDim}

----------------------------------------------------------------------------
(* C20 *)

Deleted == sOut'.kind = "deleted"

\* C20: a deleteFramesByVideo(v) that completes leaves no frame of v; the blob
\* of every frame it removed is deleted; the frames of the other videos, in
\* their order, the blobs of those frames and all video records are unchanged;
\* it returns the number of frames removed.
C20_DeleteFrames ==
    [][Deleted =>
          LET v == sIn'.videoId
              removed == {i \in 1..Len(frames) : frames[i].videoId = v}
              kept == {i \in 1..Len(frames) : frames[i].videoId # v}
          IN /\ \A i \in 1..Len(frames') : frames'[i].videoId # v
             /\ \A i \in removed : frames[i].storageId \notin blobs'
             /\ Len(frames') = Cardinality(kept)
             /\ \A i \in kept :
                   /\ frames'[Cardinality({j \in kept : j <= i})] = frames[i]
                   /\ frames[i].storageId \in blobs <=> frames[i].storageId \in blobs'
             /\ blobs' \subseteq blobs
             /\ videos' = videos
             /\ sOut'.count = Cardinality(removed)]_vars

C20_Witness ==
    /\ sOut.kind = "deleted" /\ sOut.count = 2 /\ sIn.videoId = "vA"
    /\ Len(frames) = 1 /\ frames[1].videoId = "vB"
    /\ blobs = {frames[1].storageId}

----------------------------------------------------------------------------
(* C21 *)

\* the run is on the failure path of its pipeline: in the catch handler, or at
\* the Failed write that processVideo makes when extraction returned no success
OnFailurePath(run) == run.kind \in Pipelines /\ run.pc \in {"catch", "p_failwrite"}

\* everything of a video record but its status
Artifacts(rec) ==
    [processingSteps |-> rec.processingSteps,
     hasDuration |-> rec.hasDuration, duration |-> rec.duration,
     transcript |-> rec.transcript, summary |-> rec.summary,
     groqAnalysis |-> rec.groqAnalysis,
     transcriptEmbedding |-> rec.transcriptEmbedding,
     summaryEmbedding |-> rec.summaryEmbedding]

\* C21: a step on the failure path of a pipeline run writes only the status
\* field: the frames table, the stored blobs, and the transcript, duration,
\* summary, analysis, embeddings and processingSteps flags of every video are
\* the same after it; what getFramesByVideo returns for the video is the same.
C21_FailureWritesOnlyStatus ==
    [][\A r \in DOMAIN runs :
          OnFailurePath(runs[r]) =>
              /\ frames' = frames
              /\ blobs' = blobs
              /\ DOMAIN videos' = DOMAIN videos
              /\ \A v \in DOMAIN videos :
                    /\ Artifacts(videos'[v]) = Artifacts(videos[v])
                    /\ v # runs[r].video => videos'[v] = videos[v]
              /\ videos'[runs[r].video].status \in {videos[runs[r].video].status, "failed"}
              /\ getFramesByVideo(frames', runs[r].video) = getFramesByVideo(frames, runs[r].video)
      ]_vars

\* a full-path run ended Failed after extraction and transcription persisted
\* their results: the frames, the transcript and the two flags are still there
C21_Witness ==
    \E r \in DOMAIN runs :
        /\ runs[r].kind = "processVideoFull" /\ runs[r].pc = "done"
        /\ InTrace(runs[r], <<"raise", "analyzeTranscript">>)
        /\ videos[runs[r].video].status = "failed"
        /\ videos[runs[r].video].transcript = "text"
        /\ FlagsTrue(runs[r].video) = {"framesExtracted", "transcribed"}
        /\ getFramesByVideo(frames, runs[r].video) # <<>>

----------------------------------------------------------------------------
(* C22 *)

\* the frame records of a video, in table order
FrameRecords(fs, v) == LET Owned(f) == f.videoId = v IN SelectSeq(fs, Owned)

\* the last status a run wrote, Uploading if it wrote none
LastWritten(run) ==
    LET ws == {i \in 1..Len(run.trace) : run.trace[i][1] = "write"}
    IN IF ws = {} THEN "uploading"
       ELSE run.trace[CHOOSE i \in ws : \A j \in ws : j <= i][2]

\* the step is a step of run r
StepOf(r) == runs'[r] # runs[r]

\* a step of a run leaves the record, the frames and the blobs of every other
\* video as they are
WritesOwnVideoOnly ==
    \A r \in DOMAIN runs :
        StepOf(r) =>
            \A w \in DOMAIN videos \ {runs'[r].video} :
                /\ videos'[w] = videos[w]
                /\ FrameRecords(frames', w) = FrameRecords(frames, w)
                /\ \A i \in 1..Len(frames) :
                      (frames[i].videoId = w /\ frames[i].storageId \in blobs)
                          => frames[i].storageId \in blobs'

\* the record and the frames of a video are what its own run made of them,
\* as when the run is executed alone
OwnRunExplains(r, v) ==
    LET run == runs[r]
        fr == FrameRecords(frames, v)
        inserted == run.frameWrites > 0
    IN /\ run.kind # "none" => run.video = v
       /\ run.kind = "none" => videos[v] = NewVideo /\ fr = <<>>
       /\ videos[v].status = LastWritten(run)
       /\ Len(fr) = IF inserted THEN run.n ELSE 0
       /\ \A i \in 1..Len(fr) :
             /\ fr[i].timestamp = (i - 1) * PipelineInterval
             /\ fr[i].storageId = run.base + i
             /\ fr[i].imageEmbedding # None => InTrace(run, Call("embedVideoFrames"))
             /\ ~fr[i].description /\ ~fr[i].keywords /\ fr[i].keywordsEmbedding = None
       /\ \A st \in {"extractFrames", "transcribeVideo"} :
             /\ InTrace(run, Ret(st)) => videos[v].processingSteps[FlagOf(st)]
             /\ videos[v].processingSteps[FlagOf(st)] => InTrace(run, Call(st))
       /\ videos[v].processingSteps["embedded"] => InTrace(run, Call("embedVideoFrames"))
       /\ ~videos[v].processingSteps["framesAnalyzed"]
       /\ videos[v].transcript # "none" => InTrace(run, Call("transcribeVideo"))
       /\ videos[v].summary => InTrace(run, Ret("analyzeTranscript"))
       /\ videos[v].hasDuration =>
             \/ InTrace(run, Call("transcribeVideo")) /\ videos[v].duration \in TranscriberDurations
             \/ inserted /\ videos[v].duration = (run.n - 1) * PipelineInterval

\* C22: pipeline runs for two different videos, interleaved in any way, are
\* independent: a step of the run for one video never writes the record of the
\* other video nor creates, changes or deletes a frame or a blob of the other;
\* the status, flags and frames of each video are those its own run produced.
C22_Independent ==
    /\ [](OwnRunExplains("rA", "vA") /\ OwnRunExplains("rB", "vB"))
    /\ [][WritesOwnVideoOnly]_vars

\* both runs ended Ready with one frame each; vB's frame was sampled after
\* vA's and inserted before it, and vA's frame was embedded afterwards
C22_Witness ==
    /\ runs["rA"].pc = "done" /\ runs["rB"].pc = "done"
    /\ runs["rA"].kind = "processVideoFull"
    /\ videos["vA"].status = "ready" /\ videos["vB"].status = "ready"
    /\ Len(frames) = 2
    /\ frames[1].videoId = "vB" /\ frames[2].videoId = "vA"
    /\ frames[2].storageId < frames[1].storageId
    /\ frames[2].imageEmbedding # None /\ frames[1].imageEmbedding = None

----------------------------------------------------------------------------
(* C23 *)

\* the run is awaiting a stage
InStage(run) == run.kind \in Pipelines /\ StageOfPc(run.pc) # "none"

\* a run that is active on the same video as run r, in another slot
Rivals(r) ==
    {o \in DOMAIN runs \ {r} : runs[o].kind \in Pipelines /\ runs[o].video = runs[r].video}

EndsWith(run, e) == run.trace # <<>> /\ run.trace[Len(run.trace)] = e

\* a step in which a run writes a status leaves the video with that status,
\* whatever the status was and whoever wrote it
LastWriterWins ==
    \A r \in DOMAIN runs :
        (/\ runs[r].kind \in Pipelines
         /\ Len(runs'[r].trace) = Len(runs[r].trace) + 1
         /\ runs'[r].trace[Len(runs'[r].trace)][1] = "write")
        => videos'[runs[r].video].status = runs'[r].trace[Len(runs'[r].trace)][2]

\* nothing a run does waits for, or looks at, a rival run on the same video
NoMutualExclusion ==
    /\ \A v \in DOMAIN videos, kind \in Pipelines :
          runs["rB"].pc = "idle" => ENABLED StartPipeline("rB", v, kind)
    /\ \A r \in DOMAIN runs :
          LET run == runs[r]
              v == run.video
          IN \A o \in Rivals(r) :
                \* (a) the final status is written while the rival awaits a stage
                /\ (run.pc = "p_ready" /\ InStage(runs[o]))
                      => ENABLED (PReady(r) /\ videos'[v].status = "ready"
                                            /\ InStage(runs'[o]))
                /\ (run.pc \in {"catch", "p_failwrite"} /\ InStage(runs[o]))
                      => ENABLED ((PCatch(r) \/ PFailWrite(r))
                                     /\ videos'[v].status = "failed" /\ InStage(runs'[o]))
                \* (b) Ready is written over the rival's Failed
                /\ (run.pc = "p_ready" /\ EndsWith(runs[o], W("failed"))
                       /\ videos[v].status = "failed")
                      => ENABLED (PReady(r) /\ videos'[v].status = "ready")
                \* (c) the frames are inserted again
                /\ (run.pc = "ex_batch" /\ runs[o].frameWrites > 0)
                      => ENABLED (ExBatch(r) /\ Len(frames') = Len(frames) + run.n)

\* C23: nothing enforces at most one active pipeline per video: a second run
\* is accepted while the first is active, a status write always wins over
\* what was there, and the writes that lead to (a) a final status while the
\* other run awaits a stage, (b) Ready over the other run's Failed and (c) a
\* second insertion of the frames are never refused.
C23_NoMutualExclusion == [](NoMutualExclusion) /\ [][LastWriterWins]_vars

\* the run scheduled by createVideo and an explicit full-path run overlapped:
\* the full-path run inserted its frame first, the scheduled run inserted the
\* same timestamp again and ended Failed, the full-path run then wrote Ready
C23_Witness ==
    \E r \in DOMAIN runs :
        \E o \in Rivals(r) :
            /\ runs[r].kind = "processVideo" /\ runs[r].pc = "done"
            /\ EndsWith(runs[r], W("failed"))
            /\ runs[o].kind = "processVideoFull" /\ runs[o].pc = "done"
            /\ EndsWith(runs[o], W("ready"))
            /\ videos[runs[r].video].status = "ready"
            /\ Len(frames) = 2
            /\ frames[1].timestamp = frames[2].timestamp
            /\ frames[1].videoId = frames[2].videoId
            /\ frames[1].storageId = runs[o].base + 1
            /\ frames[2].storageId = runs[r].base + 1

\* (a) as a state: the video is Ready while the other run awaits a stage
ReadyWhileRivalActive ==
    \E r \in DOMAIN runs :
        \E o \in Rivals(r) :
            /\ runs[r].pc = "done" /\ EndsWith(runs[r], W("ready"))
            /\ videos[runs[r].video].status = "ready"
            /\ InStage(runs[o])

----------------------------------------------------------------------------
(* C24 *)

\* the pipeline run in slot r has started and has not ended
Active(r) == runs[r].kind \in Pipelines /\ runs[r].pc \notin Final

\* the run has ended and left its video Ready or Failed
EndedFinal(r) ==
    /\ runs[r].kind \in Pipelines
    /\ runs[r].pc \in Final
    /\ videos[runs[r].video].status \in {"ready", "failed"}

\* C24 (as claimed): when every call and every write of a pipeline run returns,
\* with a result or with an error, and the run is not killed, the run ends and
\* has left the video in status Ready or Failed.
C24_EventuallyFinal == \A r \in RunIds : Active(r) ~> EndedFinal(r)

\* what does hold: the run ends; it has left the video Ready or Failed unless
\* the Failed write of its catch handler raised
C24_EndsUnlessFailedWriteRaises ==
    \A r \in RunIds : Active(r) ~> (EndedFinal(r) \/ runs[r].pc = "crashed")

----------------------------------------------------------------------------
(* C25 *)

ClipCall == sOut.kind = "clip"

\* the answers with status 429
RateLimited(out) == {i \in 1..Len(out.responses) : out.responses[i].code = 429}

\* the retry_after the provider supplied, 10 when it supplied none
SuppliedRetryAfter(hint) == IF hint = Absent THEN DefaultRetryAfter ELSE hint

\* at most 5 create requests; a request is repeated only after a 429; the
\* call raises after the 5th consecutive 429 and at once after another
\* non-OK answer
BoundedRetry ==
    ClipCall =>
        /\ Len(sOut.responses) <= maxRetries
        /\ \A i \in 1..(Len(sOut.responses) - 1) : sOut.responses[i].code = 429
        /\ sOut.retries <= Cardinality(RateLimited(sOut))
        /\ (sOut.retries = maxRetries /\ spc # "create")
              => spc = "raised" /\ sOut.error = "rate limited" /\ sOut.polls = 0
        /\ \A i \in 1..Len(sOut.responses) :
              sOut.responses[i].code = 500
                 => /\ i = Len(sOut.responses)
                    /\ spc = "raised" /\ sOut.error = "api error" /\ sOut.polls = 0

\* C25 (as claimed): the retry is bounded as above, and before the i-th retry
\* the call waits the retry_after supplied with the i-th 429 (10 when none was
\* supplied) plus 1 second.
C25_RateLimitRetry ==
    /\ BoundedRetry
    /\ ClipCall =>
          /\ Len(sOut.waits) = sOut.retries
          /\ \A i \in 1..Len(sOut.waits) :
                sOut.waits[i] = SuppliedRetryAfter(sOut.responses[i].retryAfter) + 1

\* the bound by itself: five 429 answers, five waits, then the call raised
RetriesExhausted ==
    /\ ClipCall /\ spc = "raised" /\ sOut.error = "rate limited"
    /\ Len(sOut.responses) = maxRetries /\ Len(sOut.waits) = maxRetries

----------------------------------------------------------------------------
(* C26 *)

\* a prediction has been created: the last create request was answered OK
Created == ClipCall /\ sOut.responses # <<>>
              /\ sOut.responses[Len(sOut.responses)].code = 201

Ended == spc \in {"returned", "raised"}

\* C26 (as claimed): once a prediction has been created, the call returns or
\* raises only when the provider has reported status succeeded or failed.
C26_EndsOnlyOnTerminalStatus ==
    (Created /\ Ended) => sOut.status \in Terminal

\* while the reported status is neither succeeded nor failed the call neither
\* returns nor raises of its own accord: it polls again, however many polls it
\* has made, and ends only if a poll request itself raises
PollsOn ==
    (Created /\ spc = "poll" /\ sOut.status \notin Terminal)
        => /\ spc' = "poll" \/ (spc' = "raised" /\ sOut'.error = "poll request")
           /\ sOut'.polls = sOut.polls + 1

\* C26 (amended): once a prediction has been created, the call returns only
\* after status succeeded, and raises only after status succeeded or failed or
\* when a status poll request itself raises; there is no bound on the polls and
\* no timeout: after any number of polls without a terminal status the next
\* step is another poll.
C26_PollsUntilTerminal ==
    /\ []((Created /\ Ended) => \/ sOut.status \in Terminal
                                \/ spc = "raised" /\ sOut.error = "poll request")
    /\ []((Created /\ spc = "returned") => sOut.status = "succeeded")
    /\ [][PollsOn]_vars

\* the call has polled as often as the model follows it and still waits
C26_Witness ==
    /\ Created /\ spc = "poll"
    /\ sOut.polls = MaxPolls
    /\ sOut.status \in {"processing", "canceled"}

----------------------------------------------------------------------------
(* C27 *)

Called(c) == \E i \in 1..Len(sOut.calls) : sOut.calls[i] = c

\* the matches a channel contributed to a returned search
MatchesOf(c) ==
    {i \in 1..Len(sOut.frameMatches) : sOut.frameMatches[i].source = c}
        \cup {i \in 1..Len(sOut.videoMatches) : sOut.videoMatches[i].source = c}

\* C27: a search whose Embedder calls succeeded runs the vector search of a
\* channel exactly when the weight of the channel is > 0, and a channel with a
\* zero or negative weight contributes no match; the joint image-text Embedder
\* is called exactly when the image weight is > 0 (and the text Embedder did not
\* fail before); with an image weight <= 0 the search returns although the
\* joint-space Embedder is unavailable.
C27_ChannelsByWeight ==
    sIn.kind = "hybridSearch" =>
        /\ \A c \in Channels :
              /\ Called(c) <=> (sIn.weights[c] > 0 /\ sOut.kind = "result")
              /\ (sOut.kind = "result" /\ sIn.weights[c] <= 0) => MatchesOf(c) = {}
        /\ Called("embedTextWithCLIP") <=> (sIn.weights.image > 0 /\ sIn.textOk)
        /\ (sIn.weights.image <= 0 /\ sIn.textOk) => sOut.kind = "result"

\* image weight 0, the joint-space Embedder unavailable, the image index would
\* answer with a hit: the search returns with the keywords match alone
C27_Witness ==
    /\ sIn.kind = "hybridSearch" /\ sOut.kind = "result"
    /\ sIn.weights.image = 0 /\ sIn.weights.keywords > 0
    /\ ~sIn.clipOk
    /\ \E i \in 1..Len(sIn.hits) : sIn.hits[i].channel = "image"
    /\ sOut.calls = <<"embedText", "keywords", "transcript">>
    /\ Len(sOut.frameMatches) = 1 /\ sOut.frameMatches[1].source = "keywords"

----------------------------------------------------------------------------
(* C28 *)

SearchLimit == IF sIn.limit = None THEN DefaultLimit ELSE sIn.limit

\* C28: in a returned search every match of the transcript or summary channel
\* belongs to a video that is Ready in the state the search read, each of these
\* two channels contributes at most 10 matches, and each frame-level channel
\* at most 2 x limit matches.
C28_ChannelPools ==
    (sIn.kind = "hybridSearch" /\ sOut.kind = "result") =>
        /\ \A i \in 1..Len(sOut.videoMatches) :
              /\ sOut.videoMatches[i].source \in {"transcript", "summary"}
              /\ videos[sOut.videoMatches[i].videoId].status = "ready"
        /\ \A c \in {"transcript", "summary"} :
              Cardinality(MatchesOf(c)) <= VideoChannelLimit
        /\ \A c \in FrameChannels :
              Cardinality(MatchesOf(c)) <= 2 * SearchLimit

\* more Ready candidates than 10 and more frames than 2 x limit: the video
\* channel returned 10 matches leaving out a video that is not Ready, the
\* image channel returned 2 of 5 frames
C28_Witness ==
    /\ sIn.kind = "hybridSearch" /\ sOut.kind = "result"
    /\ sIn.limit = 1
    /\ Cardinality({v \in DOMAIN videos : videos[v].status = "ready"}) > VideoChannelLimit
    /\ videos[1].status # "ready"
    /\ Cardinality(MatchesOf("transcript")) = VideoChannelLimit
    /\ \A i \in 1..Len(sOut.videoMatches) : sOut.videoMatches[i].videoId # 1
    /\ Cardinality(MatchesOf("image")) = 2
    /\ Len(frames) > 2

----------------------------------------------------------------------------
(* C29 *)

\* the frame matches of a search that lie in a cluster of a video
InCluster(v, m) ==
    {i \in 1..Len(sOut.frameMatches) :
        /\ sOut.frameMatches[i].videoId = v
        /\ sOut.frameMatches[i].timestamp >= m.startTime
        /\ sOut.frameMatches[i].timestamp <= m.endTime}

RECURSIVE SumOf(_, _)
SumOf(ms, S) ==
    IF S = {} THEN 0
    ELSE LET i == CHOOSE x \in S : TRUE IN ms[i].score + SumOf(ms, S \ {i})

\* C29: for every cluster the search returns, confidence is the sum of the
\* weighted scores of its members divided by their number, the preview
\* (thumbnail and description) is that of a member with the smallest timestamp
\* of the cluster, and sources is exactly the set of the channels of its
\* members, a subset of {image, keywords}.
C29_ClusterView ==
    (sIn.kind = "hybridSearch" /\ sOut.kind = "result") =>
        \A r \in 1..Len(sOut.results) :
            \A k \in 1..Len(sOut.results[r].matches) :
                LET m == sOut.results[r].matches[k]
                    members == InCluster(sOut.results[r].videoId, m)
                IN /\ members # {}
                   /\ m.confidence.den = Cardinality(members)
                   /\ m.confidence.num = SumOf(sOut.frameMatches, members)
                   /\ \E i \in members :
                         /\ sOut.frameMatches[i].frameId = m.preview
                         /\ \A j \in members :
                               sOut.frameMatches[i].timestamp <= sOut.frameMatches[j].timestamp
                   /\ m.sources = {sOut.frameMatches[i].source : i \in members}
                   /\ m.sources \subseteq FrameChannels

\* a cluster of four members of both channels over two timestamps, in a video
\* that also has a transcript match; the image index answered with a later
\* frame first
C29_Witness ==
    /\ sIn.kind = "hybridSearch" /\ sOut.kind = "result"
    /\ sOut.frameMatches # <<>>
    /\ sOut.frameMatches[1].timestamp > 0
    /\ \E r \in 1..Len(sOut.results) :
          /\ \E i \in 1..Len(sOut.videoMatches) :
                sOut.videoMatches[i].videoId = sOut.results[r].videoId
          /\ Len(sOut.results[r].matches) = 2
          /\ LET m == sOut.results[r].matches[1]
             IN /\ m.startTime = 0 /\ m.endTime = PoolInterval
                /\ m.confidence = [num |-> 2 * 3150 + 2 * 2400, den |-> 4]
                /\ m.sources = FrameChannels
                /\ frames[m.preview].timestamp = 0

----------------------------------------------------------------------------
(* C30 *)

\* C30 (as claimed): every imageEmbedding a run of the full path stores lies in
\* the space, and has the dimension, of the query vector hybridSearch searches
\* the image channel with.
C30_ImageSpaceMatchesQuery ==
    [][\A r \in DOMAIN runs :
          (StepOf(r) /\ runs[r].kind = "processVideoFull" /\ runs[r].pc = "ef_img") =>
              \A i \in 1..Len(frames) :
                  frames'[i].imageEmbedding # frames[i].imageEmbedding =>
                      frames'[i].imageEmbedding = QueryVector("image")]_vars

----------------------------------------------------------------------------
(* C31 *)

\* the number of texts of a video that are present
TextCount(video) ==
    (IF video.transcript = "text" THEN 1 ELSE 0) + (IF video.summary THEN 1 ELSE 0)

\* C31: embedVideoText is not guarded.  On a video with a transcript and/or a
\* summary every invocation goes on to the Embedder, whatever embeddings are
\* stored; one that returns has called the Embedder once for each text present
\* and has stored the embedding of each, an embedding whose text is absent
\* keeping its value; one that raises has called the Embedder and has written
\* nothing.  On a video with neither text it returns success with no Embedder
\* call and no write.  No step of it changes processingSteps or any other
\* field of the video.
C31_TextNotGuarded ==
    [][\A r \in DOMAIN runs :
          (StepOf(r) /\ runs[r].pc \in {"et_read", "et_embed"}) =>
              LET v == runs[r].video
                  video == videos[v]
                  hasT == video.transcript = "text"
                  hasS == video.summary
                  calls == runs'[r].embedCalls - runs[r].embedCalls
              IN /\ videos'[v].processingSteps = video.processingSteps
                 /\ (runs[r].pc = "et_read" /\ TextCount(video) = 0) =>
                        /\ runs'[r].pc = "done" /\ runs'[r].ok
                        /\ calls = 0
                        /\ videos' = videos
                 /\ (runs[r].pc = "et_read" /\ TextCount(video) > 0) =>
                        /\ runs'[r].pc = "et_embed"
                        /\ videos' = videos
                 /\ (runs[r].pc = "et_embed" /\ runs'[r].pc = "done") =>
                        /\ runs'[r].ok
                        /\ calls = TextCount(video)
                        /\ videos' = [videos EXCEPT
                              ![v].transcriptEmbedding = IF hasT THEN TextDim ELSE @,
                              ![v].summaryEmbedding = IF hasS THEN TextDim ELSE @]
                 /\ (runs[r].pc = "et_embed" /\ runs'[r].pc # "done") =>
                        /\ runs'[r].pc = "raised"
                        /\ calls >= 1
                        /\ videos' = videos]_vars

\* the fifth call: embedVideoText has returned after one Embedder call on a
\* video whose summary is present and embedded and whose transcript, embedded
\* by an earlier call, has since been replaced by the empty string
C31_Witness ==
    \E r \in DOMAIN runs :
        /\ runs[r].kind = "embedVideoText" /\ runs[r].pc = "done"
        /\ runs[r].embedCalls = 1
        /\ nInv = MaxTextCalls
        /\ videos[runs[r].video].transcript = "empty"
        /\ videos[runs[r].video].summary
        /\ videos[runs[r].video].transcriptEmbedding = TextDim
        /\ videos[runs[r].video].summaryEmbedding = TextDim
        /\ ~videos[runs[r].video].processingSteps["embedded"]

----------------------------------------------------------------------------
(* C32 *)

\* the transcript is absent, or the empty string
NoTranscript(video) == video.transcript \in {"none", "empty"}

\* a full-path run whose analyzeTranscript raised on a video without transcript
AnalyzedNothing(run) ==
    /\ run.kind = "processVideoFull"
    /\ InTrace(run, <<"raise", "analyzeTranscript">>)
    /\ NoTranscript(videos[run.video])

C32_State ==
    \A r \in DOMAIN runs :
        AnalyzedNothing(runs[r]) =>
            /\ runs[r].analyzerCalls = 0
            /\ runs[r].pc \in {"catch", "done", "crashed"}
            /\ runs[r].pc = "done" => videos[runs[r].video].status = "failed"
            /\ videos[runs[r].video].processingSteps["framesExtracted"]
            /\ videos[runs[r].video].processingSteps["transcribed"]
            /\ ~InTrace(runs[r], <<"ret", "analyzeTranscript">>)

C32_Step ==
    \A r \in DOMAIN runs :
        LET run == runs[r]
            v == run.video
        IN
        /\ (StepOf(r) /\ run.pc = "an_run" /\ NoTranscript(videos[v])) =>
              /\ videos' = videos
              /\ frames' = frames
              /\ runs'[r].analyzerCalls = run.analyzerCalls
              /\ runs'[r].pc = IF run.kind \in Pipelines THEN "catch" ELSE "raised"
        /\ (StepOf(r) /\ run.kind = "processVideoFull"
                /\ ~InTrace(runs'[r], <<"ret", "analyzeTranscript">>)) =>
              /\ videos'[v].summary = videos[v].summary
              /\ videos'[v].groqAnalysis = videos[v].groqAnalysis

----------------------------------------------------------------------------
(* C33 *)

\* the step is a call of updateProcessingStep (and not the creation of a video
\* after such a call)
StepUpdate ==
    /\ sIn'.kind = "updateProcessingStep"
    /\ sIn' # sIn \/ DOMAIN videos' = DOMAIN videos

\* a video record without its processingSteps
OtherFields(rec) == [f \in DOMAIN rec \ {"processingSteps"} |-> rec[f]]

\* two updates of different flags, applied to the table in either order
TwoUpdatesCommute ==
    \A v \in DOMAIN videos, s1 \in Steps, s2 \in Steps, a \in BOOLEAN, b \in BOOLEAN :
        s1 # s2 =>
            LET ab == updateProcessingStep(updateProcessingStep(videos, v, s1, a), v, s2, b)
                ba == updateProcessingStep(updateProcessingStep(videos, v, s2, b), v, s1, a)
            IN /\ ab = ba
               /\ ab[v].processingSteps[s1] = a
               /\ ab[v].processingSteps[s2] = b
               /\ OtherFields(ab[v]) = OtherFields(videos[v])

C33_Step ==
    StepUpdate =>
        LET v == sIn'.videoId IN
        /\ frames' = frames /\ blobs' = blobs /\ runs' = runs
        /\ DOMAIN videos' = DOMAIN videos
        /\ \A x \in DOMAIN videos : x # v => videos'[x] = videos[x]
        /\ IF v \in DOMAIN videos
           THEN /\ sOut'.kind = "returned"
                /\ videos'[v].processingSteps[sIn'.step] = sIn'.value
                /\ \A s \in Steps \ {sIn'.step} :
                      videos'[v].processingSteps[s] = videos[v].processingSteps[s]
                /\ OtherFields(videos'[v]) = OtherFields(videos[v])
           ELSE /\ sOut' = [kind |-> "raised", error |-> "Video not found"]
                /\ videos' = videos

\* C33: updateProcessingStep(video, step, value) sets the named flag and leaves
\* the other three flags, every other field of the video and every other record
\* as they were; two updates of different flags applied in either order give the
\* same record, with both flags at their values; on a missing video it raises
\* 'Video not found' and writes nothing.
C33_OnlyTheNamedFlag == [](TwoUpdatesCommute) /\ [][C33_Step]_vars

\* embedded was set on a Failed video that has a transcript, a duration and the
\* framesExtracted flag: all of them are still there
C33_Witness ==
    /\ sIn.kind = "updateProcessingStep" /\ sOut.kind = "returned"
    /\ sIn.step = "embedded" /\ sIn.value
    /\ videos[sIn.videoId].status = "failed"
    /\ videos[sIn.videoId].transcript = "text"
    /\ videos[sIn.videoId].hasDuration
    /\ FlagsTrue(sIn.videoId) = {"framesExtracted", "embedded"}

\* updateProcessingStep was called for a video that does not exist
StepOnMissingVideo ==
    /\ sIn.kind = "updateProcessingStep"
    /\ sOut = [kind |-> "raised", error |-> "Video not found"]
    /\ videos = <<>>

----------------------------------------------------------------------------
(* C34 *)

\* the frames of a video that lack an imageEmbedding
LackingImage(v) ==
    {i \in 1..Len(frames) : frames[i].videoId = v /\ frames[i].imageEmbedding = None}

HasFrames(v) == \E i \in 1..Len(frames) : frames[i].videoId = v

InEmbedFrames(run) ==
    run.pc \in {"ef_query", "ef_kw", "ef_img", "ef_requery", "ef_flag"}

\* the frames the invocation has been through: each was written or failed, or
\* (without keywords, embedImages false) was passed over
C34_State ==
    \A r \in DOMAIN runs :
        LET run == runs[r] IN
        /\ run.pc = "ef_flag" =>
              /\ LackingImage(run.video) = {}
              /\ run.frameWrites + run.failed >= 1
        /\ (InEmbedFrames(run) /\ ~run.embedImages /\ HasFrames(run.video)) =>
              run.pc # "ef_flag"

C34_Step ==
    \A r \in DOMAIN runs :
        LET run == runs[r]
            v == run.video
        IN
        (StepOf(r) /\ InEmbedFrames(run)) =>
            /\ videos' # videos =>
                  /\ run.pc = "ef_flag"
                  /\ videos' = [videos EXCEPT ![v].processingSteps["embedded"] = TRUE]
            /\ (run.pc = "ef_query" /\ LackingImage(v) = {}) =>
                  /\ videos' = videos /\ frames' = frames
                  /\ ~InEmbedFrames(runs'[r])
                  /\ runs'[r].ok
                  /\ runs'[r].embedCalls = run.embedCalls
            /\ (~run.embedImages /\ HasFrames(v)) => videos' = videos

\* C34: embedVideoFrames writes embedded = true only after it went through at
\* least one frame and its re-query found no frame of the video without an
\* imageEmbedding; when its first query finds no such frame it returns success
\* with no call and no write; with embedImages false on a video that has
\* frames it never writes the flag.
C34_EmbeddedFlag == [](C34_State) /\ [][C34_Step]_vars

\* the flag was written by a call that embedded the images of the frames
C34_Witness ==
    \E r \in DOMAIN runs :
        /\ runs[r].kind = "embedVideoFrames" /\ runs[r].pc = "done"
        /\ runs[r].embedImages /\ runs[r].frameWrites >= 2
        /\ videos[runs[r].video].processingSteps["embedded"]
        /\ HasFrames(runs[r].video) /\ LackingImage(runs[r].video) = {}

\* a call with embedImages false embedded the keywords of a frame and returned
\* without the flag
KeywordsOnlyLeavesFlag ==
    \E r \in DOMAIN runs :
        /\ runs[r].kind = "embedVideoFrames" /\ runs[r].pc = "done"
        /\ ~runs[r].embedImages /\ runs[r].frameWrites >= 1
        /\ ~videos[runs[r].video].processingSteps["embedded"]

\* a call found every frame embedded earlier by a call that failed to write
\* the flag, and returned without writing it
EmbeddedEarlierLeavesFlag ==
    \E r \in DOMAIN runs :
        /\ runs[r].kind = "embedVideoFrames" /\ runs[r].pc = "done"
        /\ runs[r].frameWrites = 0 /\ runs[r].failed = 0
        /\ HasFrames(runs[r].video) /\ LackingImage(runs[r].video) = {}
        /\ ~videos[runs[r].video].processingSteps["embedded"]

----------------------------------------------------------------------------
(* C35 *)

\* C35 (as claimed): every video that hybridSearch returns is Ready in the
\* store the search read, through whichever channel it was matched.
C35_OnlyReadyVideos ==
    (sIn.kind = "hybridSearch" /\ sOut.kind = "result") =>
        \A r \in 1..Len(sOut.results) :
            videos[sOut.results[r].videoId].status = "ready"

----------------------------------------------------------------------------
(* C36 *)

\* the frame-level and the video-level matches of a video in a search
FrameMatchesFor(v) ==
    {j \in 1..Len(sOut.frameMatches) : sOut.frameMatches[j].videoId = v}

VideoMatchesFor(v) ==
    {j \in 1..Len(sOut.videoMatches) : sOut.videoMatches[j].videoId = v}

\* what C36 says of one video of the result
TimeRangesFromFrames(res) ==
    LET v == res.videoId
        fm == FrameMatchesFor(v)
    IN /\ fm = {} =>
             /\ res.matches = <<>>
             /\ VideoMatchesFor(v) # {}
             /\ res.overallScore = SumOf(sOut.videoMatches, VideoMatchesFor(v))
       /\ Len(res.matches) <= Cardinality(fm)
       /\ \A k \in 1..Len(res.matches) :
             /\ res.matches[k].startTime <= res.matches[k].endTime
             /\ \E j \in fm : sOut.frameMatches[j].timestamp = res.matches[k].startTime
             /\ \E j \in fm : sOut.frameMatches[j].timestamp = res.matches[k].endTime

\* C36: time ranges come only from frame-level matches.  A video matched only
\* through the transcript and/or summary channel is aggregated, and returned,
\* with the sum of its weighted video-level scores as overallScore and an empty
\* matches list; for every video the number of clusters is at most the number
\* of its frame-level matches, and every cluster has startTime <= endTime,
\* both timestamps of matched frames of that video.
C36_TimeRangesFromFrames ==
    (sIn.kind = "hybridSearch" /\ sOut.kind = "result") =>
        /\ \A i \in 1..Len(sOut.aggregated) : TimeRangesFromFrames(sOut.aggregated[i])
        /\ \A i \in 1..Len(sOut.results) : TimeRangesFromFrames(sOut.results[i])
        /\ \A j \in 1..Len(sOut.videoMatches) :
              \E i \in 1..Len(sOut.aggregated) :
                  sOut.aggregated[i].videoId = sOut.videoMatches[j].videoId

\* a search returned a video matched through transcript and summary only, with
\* no time range, next to a video with two time ranges, one of them over two
\* timestamps
C36_Witness ==
    /\ sIn.kind = "hybridSearch" /\ sOut.kind = "result"
    /\ \E i, j \in 1..Len(sOut.results) :
          /\ FrameMatchesFor(sOut.results[i].videoId) = {}
          /\ Cardinality(VideoMatchesFor(sOut.results[i].videoId)) = 2
          /\ sOut.results[i].matches = <<>>
          /\ sOut.results[i].overallScore = 95 * 20 + 90 * 15
          /\ Len(sOut.results[j].matches) = 2
          /\ sOut.results[j].matches[1].startTime < sOut.results[j].matches[1].endTime

====
